---- MODULE Spec2Model ----
(***************************************************************************)
(* CityGuardGame: the simulation tick of components/GameCanvas.tsx         *)
(* (src/unnamed/part_000, first variant) driven by the session state       *)
(* machine of App.tsx (src/unnamed/part_002).                              *)
(*                                                                         *)
(* Units.  Time is in integer milliseconds.  Positions of buildings,       *)
(* enemies, interceptors and explosions are in whole pixels; turret        *)
(* projectile positions and enemy path lengths are in 1/1000 pixel;        *)
(* explosion radii are in 1/10 pixel (the growth rate 100 px/s is exactly  *)
(* one tenth of a pixel per millisecond); alpha is in 1/1000.  Every       *)
(* Math.random() call is a draw k/1000 with k taken from a small set.      *)
(* Date.now() is DateEpoch + clock, performance.now() is clock; all        *)
(* Date.now() calls of one tick return the same millisecond.               *)
(***************************************************************************)
EXTENDS Integers, Sequences, FiniteSets, TLC

VARIABLES
    gameState,          \* App: useState<GameState>
    level,              \* App: useState(1)
    credits,            \* App: useState(0)
    buildingsRemaining, \* App: useState(6)
    highScore,          \* App: useState(0)
    difficulty,         \* App: useState<Difficulty>
    upgrades,           \* App: useState<UpgradeStats>
    refs,               \* GameCanvas: every useRef of the simulation
    prevGameState,      \* GameCanvas: prevGameStateRef
    displayScore,       \* GameCanvas: useState(0)
    closureScore,       \* displayScore as captured by the running update closure
    raf,                \* pending animation callback: "none", "first", "loop"
    canvas,             \* [width, height] = window.innerWidth/innerHeight
    frameMs,            \* interval between animation callbacks of this host
    clock,              \* real time in ms since the page was loaded
    idles,              \* number of host idle periods so far
    shots,              \* number of player clicks that fired so far
    hist,               \* what happened so far in this level (observation only)
    ev                  \* what the last step did (observation only)

vars == <<gameState, level, credits, buildingsRemaining, highScore, difficulty,
          upgrades, refs, prevGameState, displayScore, closureScore, raf,
          canvas, frameMs, clock, idles, shots, hist, ev>>

appVars == <<gameState, level, credits, buildingsRemaining, highScore,
             difficulty, upgrades>>

(***************************************************************************)
(* Program constants                                                       *)
(***************************************************************************)
LEVEL_DURATION == 30
COMBO_TIMEOUT == 2500

GameStates == {"MENU", "PLAYING", "LEVEL_COMPLETE", "GAME_OVER", "PAUSED"}
Difficulties == {"EASY", "MEDIUM", "HARD"}
EnemyTypes == {"STANDARD", "FAST", "HEAVY", "WOBBLY", "BULLET", "LASER", "BOMB"}
UpgradeKeys == {"speedLevel", "radiusLevel", "rateLevel", "turretLevel", "shieldLevel"}

(***************************************************************************)
(* Bounds of the exploration                                               *)
(***************************************************************************)
MaxClock == 32000       \* the session is explored up to this time
MaxIdles == 2           \* host idle periods (stall, pause) explored per run
MaxShots == 1           \* player shots explored per run
MaxEnemies == 2         \* a spawn that would exceed this ends the exploration
DateEpoch == 100000     \* Date.now() when the page was loaded

(***************************************************************************)
(* Arithmetic helpers                                                      *)
(***************************************************************************)
Max(a, b) == IF a >= b THEN a ELSE b
Min(a, b) == IF a <= b THEN a ELSE b
Abs(a) == IF a < 0 THEN -a ELSE a

\* division rounding toward zero
TDiv(a, b) == IF a >= 0 THEN a \div b ELSE -((-a) \div b)

\* Math.ceil(a / b) for a >= 0, b > 0
CeilDiv(a, b) == (a + b - 1) \div b

RECURSIVE SqrtSearch(_, _, _)
SqrtSearch(n, lo, hi) ==
    IF lo >= hi THEN lo
    ELSE LET mid == (lo + hi + 1) \div 2
         IN IF mid * mid <= n THEN SqrtSearch(n, mid, hi)
                              ELSE SqrtSearch(n, lo, mid - 1)

\* floor of the square root
ISqrt(n) == SqrtSearch(n, 0, 46340)

\* Math.hypot(dx, dy) in 1/10 pixel, dx and dy in pixels
Hypot10(dx, dy) == ISqrt(100 * (dx * dx + dy * dy))

\* Math.hypot(dx, dy) < r, with r in 1/10 pixel
Within10(dx, dy, r10) == r10 > 0 /\ 100 * (dx * dx + dy * dy) < r10 * r10

\* Math.sin(a) * 1000 for a in milliradians (Bhaskara's approximation)
SinMilli(a) ==
    LET m == a % 6283
        h == IF m > 3141 THEN m - 3141 ELSE m
        p == (h * (3141 - h)) \div 1000
        s == (16000 * p) \div (49348 - 4 * p)
    IN IF m > 3141 THEN -s ELSE s

Last(s) == s[Len(s)]
RemoveAt(s, i) == SubSeq(s, 1, i - 1) \o SubSeq(s, i + 1, Len(s))

(***************************************************************************)
(* Derived upgrade statistics (GameCanvas, per render)                     *)
(***************************************************************************)
interceptorSpeed(u) == 600 + (u.speedLevel * 150)
explosionMaxRadius(u) == 60 + (u.radiusLevel * 15)
fireCooldown(u) == Max(100, 500 - (u.rateLevel * 50))
shieldMaxEnergy(u) == u.shieldLevel * 100
turretCooldown(u) == Max(200, 1000 - (u.turretLevel * 100))

NoUpgrades == [speedLevel |-> 0, radiusLevel |-> 0, rateLevel |-> 0,
               turretLevel |-> 0, shieldLevel |-> 0]

DateNow(c) == DateEpoch + c

(***************************************************************************)
(* initLevel                                                               *)
(***************************************************************************)
NewBuildings(width) ==
    LET buildingCount == 6
        buildingWidth == 60
        gap == (width - (buildingCount * buildingWidth)) \div (buildingCount + 1)
    IN [i \in 1..buildingCount |->
          [id |-> i - 1,
           x |-> gap + (i - 1) * (buildingWidth + gap),
           width |-> buildingWidth,
           isDestroyed |-> FALSE]]

\* the refs as useRef() creates them when the component mounts
MountRefs ==
    [buildings |-> <<>>, enemies |-> <<>>, interceptors |-> <<>>,
     explosions |-> <<>>, projectiles |-> <<>>,
     shieldEnergy |-> 0, lastTurretFireTime |-> 0,
     multiplier |-> 1, lastKillTime |-> 0,
     lastTime |-> 0, levelTime |-> 0, nextSpawnTime |-> 0, lastShotTime |-> 0,
     gameOverStart |-> 0, buildingsLostInLevel |-> 0, enemiesDestroyed |-> 0,
     warningPlayed |-> FALSE, serial |-> 1]

KeepBuildings_AlwaysNew(r, lvl, width) == NewBuildings(width)

KeepBuildings(r, lvl, width) ==
    IF lvl = 1 \/ Len(r.buildings) = 0 THEN NewBuildings(width) ELSE r.buildings

\* initLevel without the shield recharge
initLevel_NoRecharge(r, lvl, u, width) ==
    [r EXCEPT !.enemies = <<>>, !.interceptors = <<>>, !.explosions = <<>>,
              !.projectiles = <<>>,
              !.levelTime = 0, !.nextSpawnTime = 0,
              !.buildingsLostInLevel = 0, !.enemiesDestroyed = 0,
              !.lastShotTime = 0, !.lastTurretFireTime = 0,
              !.warningPlayed = FALSE, !.gameOverStart = 0,
              !.multiplier = 1, !.lastKillTime = 0,
              !.buildings = KeepBuildings(r, lvl, width)]

initLevel(r, lvl, u, width) ==
    [r EXCEPT !.enemies = <<>>, !.interceptors = <<>>, !.explosions = <<>>,
              !.projectiles = <<>>,
              !.levelTime = 0, !.nextSpawnTime = 0,
              !.buildingsLostInLevel = 0, !.enemiesDestroyed = 0,
              !.lastShotTime = 0, !.lastTurretFireTime = 0,
              !.warningPlayed = FALSE, !.gameOverStart = 0,
              !.multiplier = 1, !.lastKillTime = 0,
              !.shieldEnergy = u.shieldLevel * 100,
              !.buildings = KeepBuildings(r, lvl, width)]

\* initLevel without setDisplayScore(0)
initLevelScore_Keep(r, lvl, score) == score

\* setDisplayScore(0) is part of the level-1 branch of initLevel
initLevelScore(r, lvl, score) ==
    IF lvl = 1 \/ Len(r.buildings) = 0 THEN 0 ELSE score

(***************************************************************************)
(* What one step did.  Observation only: no operator of the model reads it *)
(* to decide what the program does.                                        *)
(***************************************************************************)
NoHistory ==
    [kills |-> <<>>,         \* <<Date.now(), multiplier>> of the last kills of the level
     energies |-> <<>>,      \* shield energy after each absorption of the level
     lossSinceKill |-> FALSE,\* a building fell after the last kill of the level
     lostInRun |-> {},       \* ids of the buildings destroyed in this run
     gameOvers |-> 0,        \* onGameOver calls of this run
     spawned |-> 0,          \* enemies spawned in this level
     landed |-> 0,           \* enemies that reached the ground in this level
     cues |-> 0,             \* warning cues played since the next spawn was scheduled
     destroyedAtInit |-> 0]  \* buildings already destroyed when the level began

\* kills remembered per level
HistoryLen == 3

Remember(log, x, n) == IF Len(log) < n THEN Append(log, x) ELSE Tail(log) \o <<x>>

NoEvent(kind) ==
    [kind |-> kind,          \* which handler ran and how it ended
     kills |-> <<>>,         \* one record per handleKill call of this tick
     absorbs |-> <<>>,       \* <<energy before, energy after>> per absorption
     hits |-> <<>>,          \* one record per health decrement of this tick
     lost |-> 0,             \* buildings destroyed in this tick
     impacts |-> 0,          \* enemies that reached the ground in this tick
     landedIds |-> <<>>,     \* their identities
     lostPer |-> <<>>,       \* buildings destroyed by each of them
     multAtStart |-> 0,      \* multiplier when the tick began
     sinceKill |-> 0,        \* now - lastKillTime when the tick began
     resets |-> {},          \* statements that took the multiplier from > 1 to 1
     wasOne |-> FALSE,       \* multiplier was 1 at some point of the tick body
     spawned |-> 0,
     spawnTargets |-> <<>>,  \* targetX of the enemies spawned in this tick
     spawnTypes |-> <<>>,    \* type of the enemies spawned in this tick
     cues |-> 0,             \* playSound('warning') calls of this tick
     cuesAtSpawn |-> <<>>,   \* per spawn: cues played since it was scheduled
     gameOverCalls |-> 0,
     levelCompleteCalls |-> 0,
     stats |-> <<>>,         \* <<buildingsLost, enemiesDestroyed>> given to onLevelComplete
     finalScore |-> <<>>,    \* <<score>> given to onGameOver
     first |-> FALSE,        \* this was the first callback of its chain
     delta |-> 0,            \* time - lastTime as update computed it
     gap |-> 0,              \* time since the previous callback of any chain
     bought |-> <<>>,        \* <<type, cost>> buyUpgrade was called with
     before |-> <<>>]        \* what startGame or nextLevel found

(***************************************************************************)
(* handleKill                                                              *)
(***************************************************************************)
baseScore(type) ==
    CASE type = "FAST" -> 20
      [] type = "BULLET" -> 25
      [] type = "WOBBLY" -> 30
      [] type = "LASER" -> 35
      [] type = "HEAVY" -> 40
      [] type = "BOMB" -> 40
      [] OTHER -> 10

\* diffMult in tenths
diffMult10(diff) ==
    CASE diff = "HARD" -> 15
      [] diff = "EASY" -> 8
      [] OTHER -> 10

\* totalScore with Math.floor in place of Math.ceil
totalScore_Floor(type, diff, mult) == (baseScore(type) * diffMult10(diff) * mult) \div 10

\* Math.ceil(baseScore * diffMult * multiplier)
totalScore(type, diff, mult) == CeilDiv(baseScore(type) * diffMult10(diff) * mult, 10)

\* comboAfterKill without the cap
comboAfterKill_NoCap(mult, timeSinceLast) ==
    IF timeSinceLast < COMBO_TIMEOUT THEN mult + 1 ELSE 1

\* comboAfterKill with a kill at exactly COMBO_TIMEOUT still inside the window
comboAfterKill_Inclusive(mult, timeSinceLast) ==
    IF timeSinceLast <= COMBO_TIMEOUT THEN Min(mult + 1, 10) ELSE 1

\* Combo Logic of handleKill: the multiplier after a kill
comboAfterKill(mult, timeSinceLast) ==
    IF timeSinceLast < COMBO_TIMEOUT THEN Min(mult + 1, 10) ELSE 1

handleKill(s, enemy, via, c) ==
    LET timeSinceLast == c.now - s.r.lastKillTime
        m == comboAfterKill(s.r.multiplier, timeSinceLast)
        total == totalScore(enemy.type, c.difficulty, m)
    IN [s EXCEPT !.r.enemiesDestroyed = @ + 1,
                 !.r.multiplier = m,
                 !.r.lastKillTime = c.now,
                 !.score = @ + total,
                 !.ev.kills = Append(@, [id |-> enemy.id, type |-> enemy.type,
                                         via |-> via, gap |-> timeSinceLast,
                                         before |-> s.r.multiplier, mult |-> m,
                                         score |-> total,
                                         turretHits |-> enemy.turretHits,
                                         sparkHits |-> enemy.sparkHits,
                                         blastHits |-> enemy.blastHits,
                                         afterLoss |-> s.hist.lossSinceKill,
                                         first |-> s.r.enemiesDestroyed = 0]),
                 !.hist.kills = Remember(@, <<c.now, m>>, HistoryLen),
                 !.hist.lossSinceKill = FALSE,
                 !.ev.resets = IF s.r.multiplier > 1 /\ m = 1
                               THEN @ \cup {"kill"} ELSE @,
                 !.ev.wasOne = @ \/ m = 1]

(***************************************************************************)
(* Explosions                                                              *)
(***************************************************************************)
\* id: Date.now()            -> <<0, now>>
\* id: Date.now() + Math.random() -> <<1, serial>>, never equal to another id
MsId(c) == <<0, c.now>>
RndId(s) == <<1, s.r.serial>>

\* radii in pixels as the source writes them; origin is the identity of the
\* enemy whose surviving hit made this spark (0 for every other explosion)
Explosion(s, id, x, y, currentRadius, maxRadius, origin) ==
    [id |-> id, uid |-> s.r.serial, x |-> x, y |-> y,
     currentRadius |-> currentRadius * 10, maxRadius |-> maxRadius * 10,
     alpha |-> 1000, origin |-> origin]

PushExplosion(s, id, x, y, currentRadius, maxRadius, origin) ==
    [s EXCEPT !.r.explosions =
                  Append(@, Explosion(s, id, x, y, currentRadius, maxRadius, origin)),
              !.r.serial = @ + 1]

(***************************************************************************)
(* getEnemyConfig and the spawner                                          *)
(* A draw record holds the Math.random() results of one spawn, each k/1000 *)
(***************************************************************************)
\* every difficulty unlocks the types at the MEDIUM levels
availableTypes_NoDifficulty(lvl, diff) ==
    <<"STANDARD">>
    \o (IF lvl >= 2 THEN <<"FAST">> ELSE <<>>)
    \o (IF lvl >= 3 THEN <<"BOMB">> ELSE <<>>)
    \o (IF lvl >= 4 THEN <<"HEAVY">> ELSE <<>>)
    \o (IF lvl >= 5 THEN <<"BULLET">> ELSE <<>>)
    \o (IF lvl >= 6 THEN <<"WOBBLY">> ELSE <<>>)
    \o (IF lvl >= 7 THEN <<"LASER">> ELSE <<>>)

availableTypes(lvl, diff) ==
    LET start == CASE diff = "EASY" ->
                        [FAST |-> 3, BOMB |-> 4, HEAVY |-> 6, BULLET |-> 7,
                         WOBBLY |-> 8, LASER |-> 9]
                   [] diff = "HARD" ->
                        [FAST |-> 1, BOMB |-> 2, HEAVY |-> 3, BULLET |-> 3,
                         WOBBLY |-> 5, LASER |-> 5]
                   [] OTHER ->
                        [FAST |-> 2, BOMB |-> 3, HEAVY |-> 4, BULLET |-> 5,
                         WOBBLY |-> 6, LASER |-> 7]
    IN <<"STANDARD">>
       \o (IF lvl >= start.FAST THEN <<"FAST">> ELSE <<>>)
       \o (IF lvl >= start.BOMB THEN <<"BOMB">> ELSE <<>>)
       \o (IF lvl >= start.HEAVY THEN <<"HEAVY">> ELSE <<>>)
       \o (IF lvl >= start.BULLET THEN <<"BULLET">> ELSE <<>>)
       \o (IF lvl >= start.WOBBLY THEN <<"WOBBLY">> ELSE <<>>)
       \o (IF lvl >= start.LASER THEN <<"LASER">> ELSE <<>>)

enemyType(lvl, diff, rand, rand2) ==
    LET av == availableTypes(lvl, diff)
        picked == IF Len(av) > 1 /\ rand > 400
                  THEN av[((rand2 * (Len(av) - 1)) \div 1000) + 2]
                  ELSE "STANDARD"
    IN IF diff = "HARD" /\ lvl >= 3 /\ rand > 900 THEN "FAST" ELSE picked

\* speedMultiplier of the type, in percent
speedMultiplier(type) ==
    CASE type = "FAST" -> 160
      [] type = "HEAVY" -> 50
      [] type = "WOBBLY" -> 80
      [] type = "BOMB" -> 60
      [] type = "BULLET" -> 220
      [] type = "LASER" -> 250
      [] OTHER -> 100

\* difficultySpeedMod, in percent
difficultySpeedMod(diff) ==
    CASE diff = "EASY" -> 80
      [] diff = "HARD" -> 125
      [] OTHER -> 100

\* (baseSpeed + Math.random() * 40) * speedMultiplier, in 1/1000 px per second
enemySpeed(lvl, diff, type, rand) ==
    LET baseSpeed == 50 + (lvl * 10)
        raw == baseSpeed * 1000 + rand * 40
    IN (((raw * speedMultiplier(type)) \div 100) * difficultySpeedMod(diff)) \div 100

\* baseRate without Math.max(0.4, ...)
spawnRate_NoFloor(lvl, diff) ==
    LET baseRate == 2500 - (lvl * 150)
        rateMod10 == CASE diff = "EASY" -> 13 [] diff = "HARD" -> 7 [] OTHER -> 10
    IN (baseRate * rateMod10) \div 10

\* baseRate * rateMod, in ms
spawnRate(lvl, diff) ==
    LET baseRate == Max(400, 2500 - (lvl * 150))
        rateMod10 == CASE diff = "EASY" -> 13 [] diff = "HARD" -> 7 [] OTHER -> 10
    IN (baseRate * rateMod10) \div 10

\* the target is drawn among all buildings, destroyed ones included
activeBuildings_All(r) == r.buildings

activeBuildings(r) == SelectSeq(r.buildings, LAMBDA b : ~b.isDestroyed)

NewEnemy(s, c) ==
    LET active == activeBuildings(s.r)
        targetB == active[((c.rnd.target * Len(active)) \div 1000) + 1]
        targetX == targetB.x + (targetB.width \div 2)
        targetY == c.height
        type == enemyType(c.level, c.difficulty, c.rnd.type, c.rnd.typeIdx)
        startX == IF type = "BOMB" THEN targetX
                  ELSE (c.rnd.startX * c.width) \div 1000
        startY == -30
        maxHealth == IF type = "HEAVY" THEN 3 ELSE 1
    IN [id |-> s.r.serial, type |-> type, x |-> startX, y |-> startY,
        startX |-> startX, startY |-> startY,
        targetX |-> targetX, targetY |-> targetY,
        totalDistance |-> Hypot10(targetX - startX, targetY - startY) * 100,
        traveledDistance |-> 0,
        speed |-> enemySpeed(c.level, c.difficulty, type, c.rnd.speed),
        health |-> maxHealth, maxHealth |-> maxHealth,
        hitByExplosionIds |-> {},
        hitUids |-> {}, turretHits |-> 0, sparkHits |-> 0, blastHits |-> 0]

SpawnDue(r, levelTime) ==
    levelTime > r.nextSpawnTime /\ Len(activeBuildings(r)) > 0

\* 2. Audio Warning Logic
Warning(s) ==
    LET timeUntilSpawn == s.r.nextSpawnTime - s.r.levelTime
    IN IF timeUntilSpawn < 500 /\ timeUntilSpawn > 0 /\ ~s.r.warningPlayed
       THEN [s EXCEPT !.r.warningPlayed = TRUE,
                      !.ev.cues = @ + 1,
                      !.hist.cues = @ + 1]
       ELSE s

\* 3. Spawn Enemies
Spawn(s, c) ==
    IF SpawnDue(s.r, s.r.levelTime)
    THEN [s EXCEPT !.r.enemies = Append(@, NewEnemy(s, c)),
                   !.r.serial = @ + 1,
                   !.r.nextSpawnTime = s.r.levelTime
                       + ((c.rnd.interval * spawnRate(c.level, c.difficulty)) \div 1000),
                   !.r.warningPlayed = FALSE,
                   !.ev.spawned = @ + 1,
                   !.ev.spawnTargets = Append(@, NewEnemy(s, c).targetX),
                   !.ev.spawnTypes = Append(@, NewEnemy(s, c).type),
                   !.ev.cuesAtSpawn = Append(@, s.hist.cues),
                   !.hist.cues = 0,
                   !.hist.spawned = @ + 1]
    ELSE s

(***************************************************************************)
(* 4. Auto-Turret Logic                                                    *)
(***************************************************************************)
RECURSIVE ClosestEnemy(_, _, _, _, _)
\* forEach with a strict <: index of the first enemy at minimal distance among
\* those above height - 100, or 0
ClosestEnemy(enemies, i, best, tx, ty) ==
    IF i > Len(enemies) THEN best
    ELSE LET e == enemies[i]
             d2 == (e.x - tx) * (e.x - tx) + (e.y - ty) * (e.y - ty)
             b2 == IF best = 0 THEN 0
                   ELSE (enemies[best].x - tx) * (enemies[best].x - tx)
                        + (enemies[best].y - ty) * (enemies[best].y - ty)
             better == (best = 0 \/ d2 < b2) /\ e.y < ty - 60
         IN ClosestEnemy(enemies, i + 1, IF better THEN i ELSE best, tx, ty)

Turret(s, c) ==
    IF c.upgrades.turretLevel > 0
       /\ c.now - s.r.lastTurretFireTime > turretCooldown(c.upgrades)
    THEN LET turretX == 60
             turretY == c.height - 40
             k == ClosestEnemy(s.r.enemies, 1, 0, turretX, turretY)
         IN IF k = 0 THEN s
            ELSE LET e == s.r.enemies[k]
                     dx == e.x - turretX
                     dy == e.y - turretY
                     d10 == Hypot10(dx, dy)
                     pSpeed == 800
                 IN [s EXCEPT !.r.projectiles =
                                 Append(@, [x |-> turretX * 1000, y |-> turretY * 1000,
                                            velocityX |-> TDiv(dx * pSpeed * 10, d10),
                                            velocityY |-> TDiv(dy * pSpeed * 10, d10)]),
                              !.r.lastTurretFireTime = c.now]
    ELSE s

(***************************************************************************)
(* 5. Move Turret Projectiles                                              *)
(***************************************************************************)
RECURSIVE HitIndex(_, _, _)
\* inner loop j = length-1 .. 0: the last enemy within 20 px of the projectile
HitIndex(enemies, p, j) ==
    IF j < 1 THEN 0
    ELSE LET e == enemies[j]
             dx10 == (p.x \div 100) - e.x * 10
             dy10 == (p.y \div 100) - e.y * 10
         IN IF dx10 * dx10 + dy10 * dy10 < 200 * 200 THEN j
            ELSE HitIndex(enemies, p, j - 1)

\* ProjectileHit with the kill test written e.health < 0
ProjectileHit_StrictZero(s, i, j, c) ==
    LET e0 == s.r.enemies[j]
        e == [e0 EXCEPT !.health = @ - 1, !.turretHits = @ + 1]
        s1 == [s EXCEPT !.r.projectiles = RemoveAt(@, i),
                        !.ev.hits = Append(@, [enemy |-> e.id, by |-> "turret",
                                               uid |-> -1, again |-> FALSE,
                                               beyond |-> FALSE,
                                               health |-> e.health])]
    IN IF e.health < 0
       THEN handleKill(
                PushExplosion([s1 EXCEPT !.r.enemies = RemoveAt(@, j)],
                              MsId(c), e.x, e.y, 5, 30, 0),
                e, "turret", c)
       ELSE PushExplosion([s1 EXCEPT !.r.enemies[j] = e],
                          RndId(s1), e.x, e.y, 2, 10, e.id)

\* the projectile at index i hits the enemy at index j
ProjectileHit(s, i, j, c) ==
    LET e0 == s.r.enemies[j]
        e == [e0 EXCEPT !.health = @ - 1, !.turretHits = @ + 1]
        s1 == [s EXCEPT !.r.projectiles = RemoveAt(@, i),
                        !.ev.hits = Append(@, [enemy |-> e.id, by |-> "turret",
                                               uid |-> -1, again |-> FALSE,
                                               beyond |-> FALSE,
                                               health |-> e.health])]
    IN IF e.health <= 0
       THEN handleKill(
                PushExplosion([s1 EXCEPT !.r.enemies = RemoveAt(@, j)],
                              MsId(c), e.x, e.y, 5, 30, 0),
                e, "turret", c)
       ELSE PushExplosion([s1 EXCEPT !.r.enemies[j] = e],
                          RndId(s1), e.x, e.y, 2, 10, e.id)

RECURSIVE MoveProjectiles(_, _, _)
MoveProjectiles(s, i, c) ==
    IF i < 1 THEN s
    ELSE LET p0 == s.r.projectiles[i]
             p == [p0 EXCEPT !.x = @ + p0.velocityX * c.delta,
                             !.y = @ + p0.velocityY * c.delta]
             s1 == [s EXCEPT !.r.projectiles[i] = p]
         IN IF p.x < 0 \/ p.x > c.width * 1000 \/ p.y < 0
            THEN MoveProjectiles([s EXCEPT !.r.projectiles = RemoveAt(@, i)], i - 1, c)
            ELSE LET j == HitIndex(s1.r.enemies, p, Len(s1.r.enemies))
                 IN IF j = 0 THEN MoveProjectiles(s1, i - 1, c)
                    ELSE MoveProjectiles(ProjectileHit(s1, i, j, c), i - 1, c)

(***************************************************************************)
(* 6. Move Interceptors                                                    *)
(***************************************************************************)
RECURSIVE MoveInterceptors_Dud(_, _, _)
\* an interceptor that reaches a target at its own launch height is removed
\* without an explosion
MoveInterceptors_Dud(s, i, c) ==
    IF i < 1 THEN s
    ELSE LET missile == s.r.interceptors[i]
             dx == missile.targetX - missile.x
             dy == missile.targetY - missile.y
             step10 == (missile.speed * c.delta) \div 100
             d10 == Hypot10(dx, dy)
         IN IF Within10(dx, dy, step10)
            THEN MoveInterceptors_Dud(
                     [(IF missile.targetY = c.height - 20 THEN s
                       ELSE PushExplosion(s, RndId(s), missile.targetX,
                                          missile.targetY, 1,
                                          explosionMaxRadius(c.upgrades), 0))
                        EXCEPT !.r.interceptors = RemoveAt(@, i)],
                     i - 1, c)
            ELSE MoveInterceptors_Dud(
                     [s EXCEPT !.r.interceptors[i].x =
                                   IF d10 = 0 THEN @ ELSE @ + TDiv(dx * step10, d10),
                               !.r.interceptors[i].y =
                                   IF d10 = 0 THEN @ ELSE @ + TDiv(dy * step10, d10)],
                     i - 1, c)

RECURSIVE MoveInterceptors(_, _, _)
MoveInterceptors(s, i, c) ==
    IF i < 1 THEN s
    ELSE LET missile == s.r.interceptors[i]
             dx == missile.targetX - missile.x
             dy == missile.targetY - missile.y
             step10 == (missile.speed * c.delta) \div 100
             d10 == Hypot10(dx, dy)
         IN IF Within10(dx, dy, step10)
            THEN MoveInterceptors(
                     [PushExplosion(s, RndId(s), missile.targetX, missile.targetY,
                                    1, explosionMaxRadius(c.upgrades), 0)
                        EXCEPT !.r.interceptors = RemoveAt(@, i)],
                     i - 1, c)
            ELSE MoveInterceptors(
                     [s EXCEPT !.r.interceptors[i].x =
                                   IF d10 = 0 THEN @ ELSE @ + TDiv(dx * step10, d10),
                               !.r.interceptors[i].y =
                                   IF d10 = 0 THEN @ ELSE @ + TDiv(dy * step10, d10)],
                     i - 1, c)

(***************************************************************************)
(* 7. Update Explosions                                                    *)
(***************************************************************************)
\* an explosion that grows and never fades
GrowExplosion_NoFade(exp, delta) == [exp EXCEPT !.currentRadius = @ + delta]

\* one explosion after exp.currentRadius += 100 * deltaTime and the fade
GrowExplosion(exp, delta) ==
    LET grown == [exp EXCEPT !.currentRadius = @ + delta]
    IN IF grown.currentRadius > grown.maxRadius
       THEN [grown EXCEPT !.alpha = @ - 2 * delta]
       ELSE grown

\* pruned once alpha <= 0 in the fade phase
ExplosionDone(exp) == exp.currentRadius > exp.maxRadius /\ exp.alpha <= 0

RECURSIVE UpdateExplosions(_, _, _)
UpdateExplosions(s, i, c) ==
    IF i < 1 THEN s
    ELSE LET exp == GrowExplosion(s.r.explosions[i], c.delta)
         IN IF ExplosionDone(exp)
            THEN UpdateExplosions([s EXCEPT !.r.explosions = RemoveAt(@, i)], i - 1, c)
            ELSE UpdateExplosions([s EXCEPT !.r.explosions[i] = exp], i - 1, c)

(***************************************************************************)
(* 8. Move Enemies & Collisions                                            *)
(***************************************************************************)
\* position on the path after enemy.traveledDistance += enemy.speed * deltaTime
MoveEnemy(e0, c) ==
    LET e == [e0 EXCEPT !.traveledDistance = @ + ((e0.speed * c.delta) \div 1000)]
        dx == e.targetX - e.startX
        dy == e.targetY - e.startY
        linearX == e.startX + ((dx * e.traveledDistance) \div e.totalDistance)
        linearY == e.startY + ((dy * e.traveledDistance) \div e.totalDistance)
        \* Math.sin(traveledDistance * 0.03) * 60, in 1/1000 px
        wave == SinMilli((e.traveledDistance * 3) \div 100) * 60
        \* perpendicular unit vector (-dy, dx) / length
        wobbleX == TDiv((-dy) * wave, e.totalDistance)
        wobbleY == TDiv(dx * wave, e.totalDistance)
    IN IF e.type = "WOBBLY"
       THEN [e EXCEPT !.x = linearX + wobbleX, !.y = linearY + wobbleY]
       ELSE [e EXCEPT !.x = linearX, !.y = linearY]

\* visualShieldRadius in 1/10 px: 180 * (0.9 + 0.1 * energy / shieldMaxEnergy)
visualShieldRadius10(energy, maxEnergy) == 1620 + ((180 * energy) \div maxEnergy)

\* the shield test without shieldEnergyRef.current > 0
ShieldBlocks_IgnoresEnergy(r, e, c) ==
    /\ c.upgrades.shieldLevel > 0
    /\ Within10(e.x - (c.width \div 2), e.y - (c.height - 20),
                visualShieldRadius10(r.shieldEnergy, shieldMaxEnergy(c.upgrades)))

ShieldBlocks(r, e, c) ==
    /\ c.upgrades.shieldLevel > 0
    /\ r.shieldEnergy > 0
    /\ Within10(e.x - (c.width \div 2), e.y - (c.height - 20),
                visualShieldRadius10(r.shieldEnergy, shieldMaxEnergy(c.upgrades)))

\* shieldAfterHit without Math.max(0, ...)
shieldAfterHit_NoClamp(energy) == energy - 30

\* shield energy after one absorption
shieldAfterHit(energy) == IF energy - 30 < 0 THEN 0 ELSE energy - 30

\* an absorption that is not counted as a kill
Absorb_Uncounted(s, i, c) ==
    LET e == s.r.enemies[i]
        s2 == [s EXCEPT !.r.shieldEnergy = shieldAfterHit(@),
                        !.ev.absorbs = Append(@, <<s.r.shieldEnergy,
                                                   shieldAfterHit(s.r.shieldEnergy)>>),
                        !.hist.energies = IF Len(@) < 4
                                          THEN Append(@, shieldAfterHit(s.r.shieldEnergy))
                                          ELSE @]
    IN [PushExplosion(s2, MsId(c), e.x, e.y, 5, 20, 0)
          EXCEPT !.r.enemies = RemoveAt(@, i)]

\* the enemy at index i is blocked by the shield
Absorb(s, i, c) ==
    LET e == s.r.enemies[i]
        s1 == handleKill(s, e, "shield", c)
        s2 == [s1 EXCEPT !.r.shieldEnergy = shieldAfterHit(@),
                         !.ev.absorbs = Append(@, <<s.r.shieldEnergy,
                                                    shieldAfterHit(s.r.shieldEnergy)>>),
                         !.hist.energies = IF Len(@) < 4
                                           THEN Append(@, shieldAfterHit(s.r.shieldEnergy))
                                           ELSE @]
    IN [PushExplosion(s2, MsId(c), e.x, e.y, 5, 20, 0)
          EXCEPT !.r.enemies = RemoveAt(@, i)]

\* enemy.hitByExplosionIds.includes(exp.id)
AlreadyHit(enemy, exp) == exp.id \in enemy.hitByExplosionIds

RECURSIVE ExplosionsVsEnemy_EveryTick(_, _, _, _)
\* ExplosionsVsEnemy as it is without the hit record: every explosion the
\* enemy is inside takes one point of health on every tick
ExplosionsVsEnemy_EveryTick(s, i, k, c) ==
    IF k > Len(s.r.explosions) THEN s
    ELSE LET exp == s.r.explosions[k]
             enemy == s.r.enemies[i]
         IN IF Within10(enemy.x - exp.x, enemy.y - exp.y, exp.currentRadius)
            THEN LET e1 == [enemy EXCEPT !.health = @ - 1,
                                         !.hitUids = @ \cup {exp.uid},
                                         !.blastHits = @ + 1]
                     s1 == [s EXCEPT !.r.enemies[i] = e1,
                                     !.ev.hits = Append(@,
                                         [enemy |-> enemy.id, by |-> "explosion",
                                          uid |-> exp.uid,
                                          again |-> exp.uid \in enemy.hitUids,
                                          beyond |-> ~Within10(enemy.x - exp.x,
                                                               enemy.y - exp.y,
                                                               exp.maxRadius),
                                          health |-> e1.health])]
                 IN IF e1.health <= 0
                    THEN [PushExplosion(handleKill(s1, e1, "explosion", c),
                                        MsId(c), e1.x, e1.y, 5, 30, 0)
                            EXCEPT !.destroyed = TRUE]
                    ELSE ExplosionsVsEnemy_EveryTick(s1, i, k + 1, c)
            ELSE ExplosionsVsEnemy_EveryTick(s, i, k + 1, c)

RECURSIVE ExplosionsVsEnemy(_, _, _, _)
\* for (const exp of explosionsRef.current): the iteration also visits the
\* explosions pushed while it runs
ExplosionsVsEnemy(s, i, k, c) ==
    IF k > Len(s.r.explosions) THEN s
    ELSE LET exp == s.r.explosions[k]
             enemy == s.r.enemies[i]
         IN IF Within10(enemy.x - exp.x, enemy.y - exp.y, exp.currentRadius)
               /\ ~AlreadyHit(enemy, exp)
            THEN LET own == exp.origin = enemy.id /\ exp.origin # 0
                     e1 == [enemy EXCEPT
                              !.hitByExplosionIds = @ \cup {exp.id},
                              !.health = @ - 1,
                              !.hitUids = @ \cup {exp.uid},
                              !.sparkHits = IF own THEN @ + 1 ELSE @,
                              !.blastHits = IF own THEN @ ELSE @ + 1]
                     s1 == [s EXCEPT !.r.enemies[i] = e1,
                                     !.ev.hits = Append(@,
                                         [enemy |-> enemy.id, by |-> "explosion",
                                          uid |-> exp.uid,
                                          again |-> exp.uid \in enemy.hitUids,
                                          beyond |-> ~Within10(enemy.x - exp.x,
                                                               enemy.y - exp.y,
                                                               exp.maxRadius),
                                          health |-> e1.health])]
                 IN IF e1.health <= 0
                    THEN [PushExplosion(handleKill(s1, e1, "explosion", c),
                                        MsId(c), e1.x, e1.y, 5, 30, 0)
                            EXCEPT !.destroyed = TRUE]
                    ELSE ExplosionsVsEnemy(
                             PushExplosion(s1, RndId(s1), e1.x, e1.y, 2, 10, e1.id),
                             i, k + 1, c)
            ELSE ExplosionsVsEnemy(s, i, k + 1, c)

\* t >= 1 || enemy.y >= canvas.height - 40
Landed(e, c) == e.traveledDistance >= e.totalDistance \/ e.y >= c.height - 40

impactRadius(type) == IF type = "BOMB" \/ type = "HEAVY" THEN 90 ELSE 40

\* a building is hit when the impact point is inside its horizontal span
BuildingHit(b, e) == ~b.isDestroyed /\ e.x >= b.x /\ e.x <= b.x + b.width

\* multiplierRef.current = 1 on building loss
comboAfterLoss(mult) == 1

RECURSIVE HitBuildings_Uncounted(_, _, _, _)
\* a building loop that destroys the building without counting the loss
HitBuildings_Uncounted(s, e, b, c) ==
    IF b > Len(s.r.buildings) THEN s
    ELSE IF BuildingHit(s.r.buildings[b], e)
         THEN HitBuildings_Uncounted(
                  [PushExplosion(s, MsId(c), e.x, c.height - 30, 1,
                                 impactRadius(e.type), 0)
                     EXCEPT !.r.buildings[b].isDestroyed = TRUE,
                            !.r.multiplier = comboAfterLoss(@),
                            !.ev.lost = @ + 1,
                            !.hist.lossSinceKill = TRUE,
                            !.hist.lostInRun = @ \cup {s.r.buildings[b].id},
                            !.ev.resets = IF s.r.multiplier > 1
                                          THEN @ \cup {"building"} ELSE @,
                            !.ev.wasOne = @ \/ comboAfterLoss(s.r.multiplier) = 1],
                  e, b + 1, c)
         ELSE HitBuildings_Uncounted(s, e, b + 1, c)

RECURSIVE HitBuildings(_, _, _, _)
HitBuildings(s, e, b, c) ==
    IF b > Len(s.r.buildings) THEN s
    ELSE IF BuildingHit(s.r.buildings[b], e)
         THEN HitBuildings(
                  [PushExplosion(s, MsId(c), e.x, c.height - 30, 1,
                                 impactRadius(e.type), 0)
                     EXCEPT !.r.buildings[b].isDestroyed = TRUE,
                            !.r.buildingsLostInLevel = @ + 1,
                            !.r.multiplier = comboAfterLoss(@),
                            !.ev.lost = @ + 1,
                            !.hist.lossSinceKill = TRUE,
                            !.hist.lostInRun = @ \cup {s.r.buildings[b].id},
                            !.ev.resets = IF s.r.multiplier > 1
                                          THEN @ \cup {"building"} ELSE @,
                            !.ev.wasOne = @ \/ comboAfterLoss(s.r.multiplier) = 1],
                  e, b + 1, c)
         ELSE HitBuildings(s, e, b + 1, c)

\* an impact that is also counted and scored as a kill
Impact_Counted(s, i, c) ==
    LET e == s.r.enemies[i]
        s1 == HitBuildings(handleKill(s, e, "impact", c), e, 1, c)
        hitBuilding == s1.ev.lost > s.ev.lost
        s2 == IF hitBuilding THEN s1
              ELSE PushExplosion(s1, MsId(c), e.x, c.height - 20, 1,
                                 impactRadius(e.type) - 20, 0)
    IN [s2 EXCEPT !.r.enemies = RemoveAt(@, i), !.ev.impacts = @ + 1,
                  !.ev.landedIds = Append(@, e.id),
                  !.ev.lostPer = Append(@, s1.ev.lost - s.ev.lost),
                  !.hist.landed = @ + 1]

\* Check Collision with Ground/Buildings for the enemy at index i
Impact(s, i, c) ==
    LET e == s.r.enemies[i]
        s1 == HitBuildings(s, e, 1, c)
        hitBuilding == s1.ev.lost > s.ev.lost
        s2 == IF hitBuilding THEN s1
              ELSE PushExplosion(s1, MsId(c), e.x, c.height - 20, 1,
                                 impactRadius(e.type) - 20, 0)
    IN [s2 EXCEPT !.r.enemies = RemoveAt(@, i), !.ev.impacts = @ + 1,
                  !.ev.landedIds = Append(@, e.id),
                  !.ev.lostPer = Append(@, s1.ev.lost - s.ev.lost),
                  !.hist.landed = @ + 1]

\* buildingsRef.current.every(b => b.isDestroyed)
AllDestroyed(buildings) == \A b \in 1..Len(buildings) : buildings[b].isDestroyed

GameOverCheck_AnyDestroyed(s) ==
    IF \E b \in 1..Len(s.r.buildings) : s.r.buildings[b].isDestroyed
    THEN [s EXCEPT !.call = "gameOver",
                   !.hist.gameOvers = @ + 1,
                   !.ev.gameOverCalls = @ + 1]
    ELSE s

\* the game-over check that follows an impact
GameOverCheck(s) ==
    IF AllDestroyed(s.r.buildings)
    THEN [s EXCEPT !.call = "gameOver",
                   !.hist.gameOvers = @ + 1,
                   !.ev.gameOverCalls = @ + 1]
    ELSE s

\* after the explosion loop for the enemy at index i: removed when destroyed,
\* else it may land
ExplosionOutcome(s, i, c) ==
    IF s.destroyed
    THEN [s EXCEPT !.destroyed = FALSE, !.r.enemies = RemoveAt(@, i)]
    ELSE IF Landed(s.r.enemies[i], c) THEN GameOverCheck(Impact(s, i, c))
    ELSE s

\* shield, explosions and ground for the enemy at index i, already moved
EnemyCollisions(s, i, c) ==
    IF ShieldBlocks(s.r, s.r.enemies[i], c)
    THEN Absorb(s, i, c)
    ELSE ExplosionOutcome(ExplosionsVsEnemy(s, i, 1, c), i, c)

RECURSIVE MoveEnemies(_, _, _)
\* for (let i = length - 1; i >= 0; i--); the game-over branch returns from
\* update, so no enemy below it is processed
MoveEnemies(s, i, c) ==
    IF i < 1 \/ s.call = "gameOver" THEN s
    ELSE MoveEnemies(
             EnemyCollisions([s EXCEPT !.r.enemies[i] = MoveEnemy(@, c)], i, c),
             i - 1, c)

(***************************************************************************)
(* update                                                                  *)
(***************************************************************************)
\* comboAfterTimeout with the window closing at exactly COMBO_TIMEOUT
comboAfterTimeout_Inclusive(mult, timeSinceKill) ==
    IF mult > 1 /\ timeSinceKill >= COMBO_TIMEOUT THEN 1 ELSE mult

\* Combo Timeout Check: the multiplier after the check at the top of a tick
comboAfterTimeout(mult, timeSinceKill) ==
    IF mult > 1 /\ timeSinceKill > COMBO_TIMEOUT THEN 1 ELSE mult

ComboTimeoutCheck(s, c) ==
    [s EXCEPT !.r.multiplier = comboAfterTimeout(@, c.now - s.r.lastKillTime),
              !.ev.resets =
                  IF s.r.multiplier > 1
                     /\ comboAfterTimeout(s.r.multiplier, c.now - s.r.lastKillTime) = 1
                  THEN @ \cup {"timeout"} ELSE @,
              !.ev.wasOne =
                  comboAfterTimeout(s.r.multiplier, c.now - s.r.lastKillTime) = 1]

\* Prevent massive jumps if tab was inactive
\* update without the stall guard
Stalled_Never(delta) == FALSE

Stalled(delta) == delta > 100

\* the loops of update start at the last index of their list
MoveAllProjectiles(s, c) == MoveProjectiles(s, Len(s.r.projectiles), c)
MoveAllInterceptors(s, c) == MoveInterceptors(s, Len(s.r.interceptors), c)
UpdateAllExplosions(s, c) == UpdateExplosions(s, Len(s.r.explosions), c)
MoveAllEnemies(s, c) == MoveEnemies(s, Len(s.r.enemies), c)

\* the gameplay part of update, after the level timer has been advanced
Gameplay(s, c) ==
    MoveAllEnemies(
        UpdateAllExplosions(
            MoveAllInterceptors(
                MoveAllProjectiles(Turret(Spawn(Warning(s), c), c), c), c), c), c)

\* the end of update: the game-over branch returns, every other tick asks for
\* the next animation frame
EndOfTick(s) ==
    IF s.call = "gameOver"
    THEN [s EXCEPT !.ev.kind = "gameOver"]
    ELSE [s EXCEPT !.ev.kind = "tick", !.resched = TRUE]

\* the level timer checked after the gameplay of the tick
LevelTimer_AfterGameplay(s, c) ==
    IF Max(0, LEVEL_DURATION * 1000 - (s.r.levelTime + c.delta)) <= 0
    THEN LET g == Gameplay([s EXCEPT !.r.levelTime = @ + c.delta], c)
         IN IF g.call = "gameOver" THEN EndOfTick(g)
            ELSE [g EXCEPT !.call = "levelComplete",
                           !.ev.kind = "levelComplete",
                           !.ev.levelCompleteCalls = @ + 1,
                           !.ev.stats = <<g.r.buildingsLostInLevel,
                                          g.r.enemiesDestroyed>>]
    ELSE EndOfTick(Gameplay([s EXCEPT !.r.levelTime = @ + c.delta], c))

\* 1. Level Timer Logic, then the gameplay
LevelTimer(s, c) ==
    IF Max(0, LEVEL_DURATION * 1000 - (s.r.levelTime + c.delta)) <= 0
    THEN [s EXCEPT !.r.levelTime = @ + c.delta,
                   !.call = "levelComplete",
                   !.ev.kind = "levelComplete",
                   !.ev.levelCompleteCalls = @ + 1,
                   !.ev.stats = <<s.r.buildingsLostInLevel, s.r.enemiesDestroyed>>]
    ELSE EndOfTick(Gameplay([s EXCEPT !.r.levelTime = @ + c.delta], c))

\* the state update(time) starts from
StartOfTick(r, score, h, time, c) ==
    [r |-> [r EXCEPT !.lastTime = time], score |-> score, hist |-> h,
     ev |-> [NoEvent("frame") EXCEPT !.multAtStart = r.multiplier,
                                     !.sinceKill = c.now - r.lastKillTime,
                                     !.delta = c.delta],
     destroyed |-> FALSE, call |-> "none", resched |-> FALSE]

\* update(time) run by the closure whose captured props are in c (c.delta is
\* time - lastTime); the result carries the callback it invoked (call) and
\* whether it asked for another animation frame (resched)
\* update without the game-over branch: the gameplay runs in GAME_OVER too
update_NoGameOverBranch(r, score, h, time, c) ==
    IF Stalled(c.delta)
    THEN [StartOfTick(r, score, h, time, c) EXCEPT !.ev.kind = "skipped"]
    ELSE LevelTimer(ComboTimeoutCheck(StartOfTick(r, score, h, time, c), c), c)

update(r, score, h, time, c) ==
    IF Stalled(c.delta)
    THEN [StartOfTick(r, score, h, time, c) EXCEPT !.ev.kind = "skipped"]
    ELSE IF c.gameState = "GAME_OVER"
    THEN [StartOfTick(r, score, h, time, c) EXCEPT
              !.r.gameOverStart = IF @ = 0 THEN time ELSE @,
              !.ev.kind = "gameOverAnimation",
              !.resched = TRUE]
    ELSE LevelTimer(ComboTimeoutCheck(StartOfTick(r, score, h, time, c), c), c)

(***************************************************************************)
(* App handlers and the GameCanvas effect.  A handler, the render it       *)
(* causes and the effect of that render are one step.                      *)
(***************************************************************************)
\* useEffect(..., [gameState, level, initLevel]) for the render with the
\* given props: the cleanup cancels the pending callback, then the body runs
NumDestroyed(buildings) ==
    Cardinality({b \in 1..Len(buildings) : buildings[b].isDestroyed})

\* initLevel() is called on every entry into PLAYING
EffectInit_Always(gs, prev) == gs = "PLAYING"

\* if (gameState === PLAYING) { if (prevGameStateRef.current !== PAUSED) initLevel() }
EffectInit(gs, prev) == gs = "PLAYING" /\ prev # "PAUSED"

Effect(gs, lvl, u) ==
    LET init == EffectInit(gs, prevGameState)
    IN /\ refs' = IF init THEN initLevel(refs, lvl, u, canvas.width) ELSE refs
       /\ displayScore' = IF init THEN initLevelScore(refs, lvl, displayScore)
                          ELSE displayScore
       /\ closureScore' = displayScore
       /\ hist' = IF ~init THEN hist
                  ELSE IF lvl = 1 THEN NoHistory
                  ELSE [NoHistory EXCEPT
                           !.lostInRun = hist.lostInRun,
                           !.gameOvers = hist.gameOvers,
                           !.destroyedAtInit =
                               NumDestroyed(KeepBuildings(refs, lvl, canvas.width))]
       /\ raf' = IF gs \in {"PLAYING", "GAME_OVER"} THEN "first" ELSE "none"
       /\ prevGameState' = gs

\* what the session looked like when startGame or nextLevel was pressed
Before ==
    [level |-> level, score |-> displayScore, credits |-> credits,
     destroyed |-> NumDestroyed(refs.buildings),
     entities |-> Len(refs.enemies) + Len(refs.interceptors)
                    + Len(refs.explosions) + Len(refs.projectiles),
     shieldLevel |-> upgrades.shieldLevel,
     shieldEnergy |-> refs.shieldEnergy]

startGame ==
    /\ gameState = "MENU"
    /\ gameState' = "PLAYING"
    /\ level' = 1
    /\ credits' = 0
    /\ buildingsRemaining' = 6
    /\ upgrades' = NoUpgrades
    /\ Effect("PLAYING", 1, NoUpgrades)
    /\ ev' = [NoEvent("startGame") EXCEPT !.before = <<Before>>]
    /\ UNCHANGED <<highScore, difficulty, canvas, frameMs, clock, idles, shots>>

setDifficulty(d) ==
    /\ gameState = "MENU"
    /\ difficulty # d
    /\ difficulty' = d
    /\ ev' = NoEvent("setDifficulty")
    /\ UNCHANGED <<gameState, level, credits, buildingsRemaining, highScore, upgrades,
                   refs, prevGameState, displayScore, closureScore, raf,
                   canvas, frameMs, clock, idles, shots, hist>>

nextLevel ==
    /\ gameState = "LEVEL_COMPLETE"
    /\ gameState' = "PLAYING"
    /\ level' = level + 1
    /\ Effect("PLAYING", level + 1, upgrades)
    /\ ev' = [NoEvent("nextLevel") EXCEPT !.before = <<Before>>]
    /\ UNCHANGED <<credits, buildingsRemaining, highScore, difficulty, upgrades,
                   canvas, frameMs, clock, idles, shots>>

togglePause ==
    /\ gameState \in {"PLAYING", "PAUSED"}
    /\ gameState' = IF gameState = "PLAYING" THEN "PAUSED" ELSE "PLAYING"
    /\ Effect(gameState', level, upgrades)
    /\ ev' = NoEvent("togglePause")
    /\ UNCHANGED <<level, credits, buildingsRemaining, highScore, difficulty, upgrades,
                   canvas, frameMs, clock, idles, shots>>

\* a quit button that is offered in every state but the menu
quitToMenu_FromAnywhere ==
    /\ gameState # "MENU"
    /\ gameState' = "MENU"
    /\ Effect("MENU", level, upgrades)
    /\ ev' = NoEvent("quitToMenu")
    /\ UNCHANGED <<level, credits, buildingsRemaining, highScore, difficulty, upgrades,
                   canvas, frameMs, clock, idles, shots>>

\* quitToMenu (pause overlay) and the game-over overlay's button
quitToMenu ==
    /\ gameState \in {"PAUSED", "GAME_OVER"}
    /\ gameState' = "MENU"
    /\ Effect("MENU", level, upgrades)
    /\ ev' = NoEvent("quitToMenu")
    /\ UNCHANGED <<level, credits, buildingsRemaining, highScore, difficulty, upgrades,
                   canvas, frameMs, clock, idles, shots>>

getUpgradeCost(currentLevel) == 500 * (currentLevel + 1)

\* a purchase that is made whatever the credits are
buyUpgrade_OnCredit(type) ==
    /\ gameState = "LEVEL_COMPLETE"
    /\ LET cost == getUpgradeCost(upgrades[type])
       IN /\ credits' = credits - cost
          /\ upgrades' = [upgrades EXCEPT ![type] = @ + 1]
          /\ ev' = [NoEvent("buyUpgrade") EXCEPT !.bought = <<type, cost>>]
    /\ UNCHANGED <<gameState, level, buildingsRemaining, highScore, difficulty,
                   refs, prevGameState, displayScore, closureScore, raf,
                   canvas, frameMs, clock, idles, shots, hist>>

\* buyUpgrade(type), offered by the shop of the level-complete screen; without
\* the credits the handler does nothing
buyUpgrade(type) ==
    /\ gameState = "LEVEL_COMPLETE"
    /\ LET cost == getUpgradeCost(upgrades[type])
       IN /\ IF credits >= cost
             THEN /\ credits' = credits - cost
                  /\ upgrades' = [upgrades EXCEPT ![type] = @ + 1]
             ELSE UNCHANGED <<credits, upgrades>>
          /\ ev' = [NoEvent("buyUpgrade") EXCEPT !.bought = <<type, cost>>]
    /\ UNCHANGED <<gameState, level, buildingsRemaining, highScore, difficulty,
                   refs, prevGameState, displayScore, closureScore, raf,
                   canvas, frameMs, clock, idles, shots, hist>>

\* handleCanvasClick at canvas point (x, y); id: Date.now() + Math.random() is
\* the ordinal of the shot
handleCanvasClick(x, y, maxShots) ==
    /\ gameState = "PLAYING"
    /\ shots < maxShots
    /\ ~(DateNow(clock) - refs.lastShotTime < fireCooldown(upgrades))
    /\ refs' = [refs EXCEPT
                  !.lastShotTime = DateNow(clock),
                  !.interceptors = Append(@,
                      [id |-> shots + 1,
                       x |-> canvas.width \div 2, y |-> canvas.height - 20,
                       targetX |-> x, targetY |-> y,
                       speed |-> interceptorSpeed(upgrades)])]
    /\ shots' = shots + 1
    /\ ev' = NoEvent("click")
    /\ UNCHANGED <<gameState, level, credits, buildingsRemaining, highScore,
                   difficulty, upgrades, prevGameState, displayScore, closureScore,
                   raf, canvas, frameMs, clock, idles, hist>>

\* the host delivers no animation callback for d ms (background tab, or the
\* player leaves the game paused or in a menu)
HostIdle(d, maxClock) ==
    /\ idles < MaxIdles
    /\ clock + d <= maxClock
    /\ clock' = clock + d
    /\ idles' = idles + 1
    /\ ev' = NoEvent("idle")
    /\ UNCHANGED <<gameState, level, credits, buildingsRemaining, highScore,
                   difficulty, upgrades, refs, prevGameState, displayScore,
                   closureScore, raf, canvas, frameMs, shots, hist>>

\* handleLevelComplete(stats)
earnedCredits(remaining, enemiesDestroyed, diff) ==
    (((remaining * 50) + (enemiesDestroyed * 10) + 100) * diffMult10(diff)) \div 10

NoDraw == [target |-> 0, startX |-> 0, type |-> 0, typeIdx |-> 0,
           speed |-> 0, interval |-> 0]

\* one animation callback: the first one of an effect run sets lastTime itself
\* the first callback of a chain keeps the stale baseline
Baseline_Keep(r, first, time) == r

\* the callback scheduled by the effect sets lastTimeRef.current = time before
\* update(time); the ones update schedules do not
Baseline(r, first, time) == IF first THEN [r EXCEPT !.lastTime = time] ELSE r

Frame(D, maxClock) ==
    /\ raf # "none"
    /\ clock + frameMs <= maxClock
    /\ LET time == clock + frameMs
           r0 == Baseline(refs, raf = "first", time)
           delta == time - r0.lastTime
           due == /\ gameState = "PLAYING"
                  /\ ~Stalled(delta)
                  /\ r0.levelTime + delta < LEVEL_DURATION * 1000
                  /\ SpawnDue(r0, r0.levelTime + delta)
       IN /\ due => Len(refs.enemies) < MaxEnemies
          /\ \E rnd \in (IF due THEN D ELSE {NoDraw}) :
             \E s \in {update(r0, displayScore, hist, time,
                              [gameState |-> gameState, level |-> level,
                               difficulty |-> difficulty, upgrades |-> upgrades,
                               width |-> canvas.width, height |-> canvas.height,
                               now |-> DateNow(time), delta |-> delta,
                               rnd |-> rnd])} :
                  /\ clock' = time
                  /\ refs' = s.r
                  /\ displayScore' = s.score
                  /\ ev' = [s.ev EXCEPT
                               !.first = (raf = "first"),
                               !.gap = time - refs.lastTime,
                               !.finalScore = IF s.call = "gameOver"
                                              THEN <<closureScore>> ELSE <<>>]
                  /\ hist' = s.hist
                  /\ CASE s.call = "levelComplete" ->
                            LET currentRemaining ==
                                    Max(0, buildingsRemaining - s.r.buildingsLostInLevel)
                            IN /\ gameState' = "LEVEL_COMPLETE"
                               /\ buildingsRemaining' = currentRemaining
                               /\ credits' = credits
                                    + earnedCredits(currentRemaining,
                                                    s.r.enemiesDestroyed, difficulty)
                               /\ raf' = "none"
                               /\ prevGameState' = "LEVEL_COMPLETE"
                               /\ closureScore' = s.score
                               /\ UNCHANGED highScore
                       [] s.call = "gameOver" ->
                            /\ gameState' = "GAME_OVER"
                            /\ buildingsRemaining' = 0
                            /\ highScore' = IF closureScore > highScore
                                            THEN closureScore ELSE highScore
                            /\ raf' = "first"
                            /\ prevGameState' = "GAME_OVER"
                            /\ closureScore' = s.score
                            /\ UNCHANGED credits
                       [] OTHER ->
                            /\ raf' = IF s.resched THEN "loop" ELSE "none"
                            /\ UNCHANGED <<gameState, buildingsRemaining, credits,
                                           highScore, prevGameState, closureScore>>
    /\ UNCHANGED <<level, difficulty, upgrades, canvas, frameMs, idles, shots>>

(***************************************************************************)
(* Initial states                                                          *)
(***************************************************************************)
\* the page has just loaded: App in MENU, GameCanvas mounted
Mounted(cv, fms) ==
    /\ gameState = "MENU"
    /\ level = 1
    /\ credits = 0
    /\ buildingsRemaining = 6
    /\ highScore = 0
    /\ difficulty = "MEDIUM"
    /\ upgrades = NoUpgrades
    /\ refs = MountRefs
    /\ prevGameState = "MENU"
    /\ displayScore = 0
    /\ closureScore = 0
    /\ raf = "none"
    /\ canvas = cv
    /\ frameMs = fms
    /\ clock = 0
    /\ idles = 0
    /\ shots = 0
    /\ hist = NoHistory
    /\ ev = NoEvent("mount")

\* the session has just entered PLAYING at level lvl (nextLevel, or startGame
\* for level 1) with the upgrades u bought so far and the buildings of the set
\* lostIds destroyed in earlier levels
LevelEntered(cv, fms, lvl, diff, u, lostIds) ==
    /\ gameState = "PLAYING"
    /\ level = lvl
    /\ credits = 0
    /\ buildingsRemaining = 6 - Cardinality(lostIds)
    /\ highScore = 0
    /\ difficulty = diff
    /\ upgrades = u
    /\ refs = initLevel(
                 [MountRefs EXCEPT !.buildings =
                     [i \in 1..6 |-> [NewBuildings(cv.width)[i] EXCEPT
                                         !.isDestroyed = (i - 1) \in lostIds]]],
                 IF lostIds = {} THEN 1 ELSE lvl, u, cv.width)
    /\ prevGameState = "PLAYING"
    /\ displayScore = 0
    /\ closureScore = 0
    /\ raf = "first"
    /\ canvas = cv
    /\ frameMs = fms
    /\ clock = 0
    /\ idles = 0
    /\ shots = 0
    /\ hist = [NoHistory EXCEPT !.lostInRun = lostIds,
                                !.destroyedAtInit = Cardinality(lostIds)]
    /\ ev = NoEvent("levelEntered")

(***************************************************************************)
(* Turret scenario: the auto-turret is bought; level 4 on MEDIUM at 50     *)
(* callbacks per second (slow Heavy enemies), or level 18 on HARD at 20    *)
(* callbacks per second (fast Heavy enemies).  The player may fire once.   *)
(***************************************************************************)
TurretHorizon == 1600
TurretDraws ==
    { [target |-> 0, startX |-> 100, type |-> 500, typeIdx |-> 700,
       speed |-> 0, interval |-> 999],
      [target |-> 0, startX |-> 100, type |-> 500, typeIdx |-> 400,
       speed |-> 0, interval |-> 999],
      [target |-> 0, startX |-> 100, type |-> 0, typeIdx |-> 0,
       speed |-> 999, interval |-> 999] }
TurretClicks == { <<50, 100>> }

InitTurret ==
    \/ LevelEntered([width |-> 500, height |-> 300], 20, 4, "MEDIUM",
                    [NoUpgrades EXCEPT !.turretLevel = 1], {})
    \/ LevelEntered([width |-> 500, height |-> 300], 50, 18, "HARD",
                    [NoUpgrades EXCEPT !.turretLevel = 1], {})

FrameTurret == Frame(TurretDraws, TurretHorizon)
ClickTurret == \E p \in TurretClicks : handleCanvasClick(p[1], p[2], MaxShots)
NextTurret == FrameTurret \/ ClickTurret
SpecTurret == InitTurret /\ [][NextTurret]_vars

(***************************************************************************)
(* Shield scenario: the shield is bought and nothing else; the player does *)
(* not fire.  Level 2 on MEDIUM on a 500 x 300 canvas at 20 callbacks per  *)
(* second: building 0 lies outside the dome, enemies aimed at buildings 1  *)
(* and 4 are absorbed on their way down.  Or level 8 on MEDIUM with shield level *)
(* 4 on a 500 x 120 canvas: the dome covers the spawn point, every enemy   *)
(* is absorbed in the tick that spawns it.  The host may stall once.       *)
(***************************************************************************)
ShieldHorizon == 6200
StallMs == 200

\* Standard down the left side of the dome, next spawn after 1800 ms
SlowLeft == [target |-> 200, startX |-> 300, type |-> 0, typeIdx |-> 0,
             speed |-> 350, interval |-> 800]
\* Fast down the right side of the dome, next spawn after 2050 ms
FastRight == [target |-> 700, startX |-> 700, type |-> 500, typeIdx |-> 0,
              speed |-> 500, interval |-> 910]
\* quicker Standard down the left side, next spawn after 250 ms
QuickLeft == [target |-> 200, startX |-> 300, type |-> 0, typeIdx |-> 0,
              speed |-> 999, interval |-> 100]
\* Fast straight down on the first standing building, next spawn after 250 ms
FastToFirst == [target |-> 0, startX |-> 100, type |-> 500, typeIdx |-> 0,
                speed |-> 999, interval |-> 100]

ShieldDraws ==
    IF level = 2 THEN {SlowLeft, FastRight, QuickLeft, FastToFirst}
    ELSE {QuickLeft}

InitShield ==
    \/ LevelEntered([width |-> 500, height |-> 300], 50, 2, "MEDIUM",
                    [NoUpgrades EXCEPT !.shieldLevel = 1], {})
    \/ LevelEntered([width |-> 500, height |-> 120], 50, 8, "MEDIUM",
                    [NoUpgrades EXCEPT !.shieldLevel = 4], {})

FrameShield == Frame(ShieldDraws, ShieldHorizon)
StallShield == raf = "loop" /\ HostIdle(StallMs, ShieldHorizon)
NextShield == FrameShield \/ StallShield
SpecShield == InitShield /\ [][NextShield]_vars

(***************************************************************************)
(* Session: from the menu on a 500 x 120 canvas at 10 callbacks per        *)
(* second.  Every enemy aims at the first or the last standing building    *)
(* and is as slow as its level allows; the spawner always waits its        *)
(* longest.  The player starts a run at StartTimes, pauses at PauseTimes,  *)
(* leaves the game paused for PauseMs at a time, resumes or quits to the   *)
(* menu, and goes on to the next level when one is complete.               *)
(***************************************************************************)
PauseMs == 3000
PauseTimes == {5000, 31000}
StartTimes == {0, 20000}

\* from the left edge region towards the first standing building
LeftToFirst == [target |-> 0, startX |-> 100, type |-> 0, typeIdx |-> 0,
                speed |-> 0, interval |-> 999]
\* from the middle towards the first standing building
MiddleToFirst == [target |-> 0, startX |-> 500, type |-> 0, typeIdx |-> 0,
                  speed |-> 0, interval |-> 999]
\* from the right towards the last standing building
RightToLast == [target |-> 999, startX |-> 900, type |-> 0, typeIdx |-> 0,
                speed |-> 0, interval |-> 999]
SessionDraws == {LeftToFirst, MiddleToFirst, RightToLast}

Init == Mounted([width |-> 500, height |-> 120], 100)

StartGame == clock \in StartTimes /\ startGame
FrameSession == Frame(SessionDraws, MaxClock)
TogglePause == (gameState = "PLAYING" => clock \in PauseTimes) /\ togglePause
StayPaused == gameState = "PAUSED" /\ HostIdle(PauseMs, MaxClock)
Buy == \E type \in UpgradeKeys : buyUpgrade(type)

Next ==
    \/ StartGame
    \/ FrameSession
    \/ TogglePause
    \/ StayPaused
    \/ quitToMenu
    \/ nextLevel

Spec == Init /\ [][Next]_vars

(***************************************************************************)
(* Siege: level 3 on MEDIUM, 500 x 120 canvas, 10 callbacks per second.    *)
(* The shield is bought; only the two outer buildings stand, both outside  *)
(* the shield dome.  Enemies come down the left edge, down the right edge  *)
(* or through the middle, where the shield absorbs them while it lasts.    *)
(***************************************************************************)
SiegeHorizon == 30300
SiegeDraws == {LeftToFirst, MiddleToFirst, RightToLast}

InitSiege ==
    LevelEntered([width |-> 500, height |-> 120], 100, 3, "MEDIUM",
                 [NoUpgrades EXCEPT !.shieldLevel = 1], {1, 2, 3, 4})

FrameSiege == Frame(SiegeDraws, SiegeHorizon)

NextSiege == FrameSiege

SpecSiege == InitSiege /\ [][NextSiege]_vars

(***************************************************************************)
(* Background tab: level 1 on MEDIUM, 500 x 120 canvas, 10 callbacks per   *)
(* second, enemies down the left edge.  At any moment of the level the     *)
(* host may withhold the animation callbacks for StallMs; otherwise it     *)
(* keeps delivering every callback that was requested (weak fairness), and *)
(* the player does nothing.  The horizon leaves room for the whole level.  *)
(***************************************************************************)
StallHorizon == 31000
StallDraws == {LeftToFirst}

InitStall == LevelEntered([width |-> 500, height |-> 120], 100, 1, "MEDIUM", NoUpgrades, {})

FrameStall == Frame(StallDraws, StallHorizon)
HostStall == gameState = "PLAYING" /\ raf = "loop" /\ HostIdle(StallMs, StallHorizon)

NextStall == FrameStall \/ HostStall

\* a requested animation callback is waiting to be delivered
CallbackPending ==
    /\ raf # "none"
    /\ clock + frameMs <= StallHorizon

\* the host delivers the pending callback one frame after the previous one
CallbackRuns == CallbackPending /\ clock' = clock + frameMs

\* weak fairness of callback delivery: a callback that stays pending runs
SpecStall == InitStall /\ [][NextStall]_vars /\ WF_clock(CallbackRuns)

(***************************************************************************)
(* Pause: the siege with a player who fires once at PauseClicks, pauses at *)
(* PauseTimes, leaves the game paused for PauseMs at a time and resumes.   *)
(***************************************************************************)
PauseHorizon == 9000
PauseDraws == {MiddleToFirst, RightToLast}
PauseClicks == { <<450, 40>> }

InitPause == InitSiege

FramePause == Frame(PauseDraws, PauseHorizon)
ClickPause == \E p \in PauseClicks : handleCanvasClick(p[1], p[2], MaxShots)

NextPause == FramePause \/ ClickPause \/ TogglePause \/ StayPaused

SpecPause == InitPause /\ [][NextPause]_vars

(***************************************************************************)
(* Shop: level 1 on HARD, 500 x 120 canvas, 10 callbacks per second, fast  *)
(* enemies that fall either into the gap right of the first standing       *)
(* building or onto it.  With at most one building lost the level pays for *)
(* one upgrade.  In level 2 the enemies come through the middle; the       *)
(* player may pause there, quit to the menu and start again.               *)
(***************************************************************************)
ShopHorizon == 31500
GapMiss == [target |-> 0, startX |-> 400, type |-> 0, typeIdx |-> 0,
            speed |-> 999, interval |-> 999]
LeftHit == [target |-> 0, startX |-> 100, type |-> 0, typeIdx |-> 0,
            speed |-> 999, interval |-> 999]
MiddleQuick == [target |-> 0, startX |-> 500, type |-> 0, typeIdx |-> 0,
                speed |-> 999, interval |-> 999]
ShopDraws == IF level = 1 THEN {GapMiss, LeftHit} ELSE {MiddleQuick}

InitShop == LevelEntered([width |-> 500, height |-> 120], 100, 1, "HARD", NoUpgrades, {})

FrameShop == Frame(ShopDraws, ShopHorizon)
PauseShop == (gameState = "PLAYING" => level = 2) /\ togglePause

NextShop ==
    \/ FrameShop
    \/ Buy
    \/ nextLevel
    \/ PauseShop
    \/ quitToMenu
    \/ startGame

SpecShop == InitShop /\ [][NextShop]_vars

(***************************************************************************)
(* Scoring: shield level 1 on a 500 x 120 canvas at 10 callbacks per       *)
(* second, at the first level of each difficulty that has every archetype  *)
(* unlocked.  Every enemy starts above the middle of the dome and is       *)
(* absorbed in the tick that spawns it; an enemy follows every 200 ms, so  *)
(* the combo multiplier climbs by one with every absorption.  The fourth   *)
(* absorption exhausts the shield; the fifth enemy is not absorbed and     *)
(* flies into the explosion the fourth one left.                           *)
(***************************************************************************)
ScoreHorizon == 1000

\* one draw for Standard, and for idx in 0..5 the draw that gives the archetype
\* at position idx of the six unlocked non-Standard archetypes
ScoreDraws ==
    { [target |-> 400, startX |-> 500, type |-> 400, typeIdx |-> 0,
       speed |-> 0, interval |-> 100] }
    \cup { [target |-> 400, startX |-> 500, type |-> 500,
            typeIdx |-> (idx * 1000) \div 6 + 1,
            speed |-> 0, interval |-> 100] : idx \in 0..5 }

InitScore ==
    \/ LevelEntered([width |-> 500, height |-> 120], 100, 9, "EASY",
                    [NoUpgrades EXCEPT !.shieldLevel = 1], {})
    \/ LevelEntered([width |-> 500, height |-> 120], 100, 7, "MEDIUM",
                    [NoUpgrades EXCEPT !.shieldLevel = 1], {})
    \/ LevelEntered([width |-> 500, height |-> 120], 100, 5, "HARD",
                    [NoUpgrades EXCEPT !.shieldLevel = 1], {})

NextScore == Frame(ScoreDraws, ScoreHorizon)

SpecScore == InitScore /\ [][NextScore]_vars

(***************************************************************************)
(* Blast: level 4 on MEDIUM, 500 x 120 canvas, 10 callbacks per second, no *)
(* upgrades.  Standard and Heavy enemies fall straight down on the first   *)
(* standing building, either 200 ms or 1.9 s after one another.  At any    *)
(* moment the player may fire at a point beside their path or at the foot  *)
(* of it.                                                                  *)
(***************************************************************************)
BlastHorizon == 2400
BlastDraws ==
    { [target |-> 0, startX |-> 100, type |-> 0, typeIdx |-> 0,
       speed |-> 0, interval |-> 100],
      [target |-> 0, startX |-> 100, type |-> 0, typeIdx |-> 0,
       speed |-> 0, interval |-> 999],
      [target |-> 0, startX |-> 100, type |-> 500, typeIdx |-> 667,
       speed |-> 0, interval |-> 999] }

InitBlast == LevelEntered([width |-> 500, height |-> 120], 100, 4, "MEDIUM", NoUpgrades, {})

NextBlast ==
    \/ Frame(BlastDraws, BlastHorizon)
    \/ \E p \in { <<90, 40>>, <<50, 100>> } : handleCanvasClick(p[1], p[2], MaxShots)

SpecBlast == InitBlast /\ [][NextBlast]_vars

(***************************************************************************)
(* Props: GameCanvas taken on its own, handed a level from -5 to 1 and     *)
(* upgrade levels of -1 or 0 by its parent (App itself starts every count  *)
(* at its lowest value and only ever increments it).  MEDIUM, 500 x 120    *)
(* canvas, 10 callbacks per second; enemies as slow as the level makes     *)
(* them; the player may fire once.                                         *)
(***************************************************************************)
PropsHorizon == 600

InitProps ==
    \E lvl \in -5..1 : \E u \in [UpgradeKeys -> {-1, 0}] :
        LevelEntered([width |-> 500, height |-> 120], 100, lvl, "MEDIUM", u, {})

NextProps == Frame(StallDraws, PropsHorizon) \/ ClickPause

SpecProps == InitProps /\ [][NextProps]_vars

(***************************************************************************)
(* Spawner: the first spawns of a level, for every level from 1 to         *)
(* MaxLevel on every difficulty.  500 x 120 canvas, 10 callbacks per       *)
(* second.  The draws put rand on both sides of 0.4 and of 0.9, the index  *)
(* draw on the boundaries between the unlocked types, and the interval     *)
(* draw at both ends of [0, 1).                                            *)
(***************************************************************************)
MaxLevel == 18
SpawnerHorizon == 400

SpawnerDraws ==
    { [target |-> 0, startX |-> 500, type |-> t, typeIdx |-> i,
       speed |-> 0, interval |-> v] :
          t \in {0, 400, 401, 900, 901, 999},
          i \in {0, 199, 200, 333, 499, 500, 666, 667, 833, 834, 999},
          v \in {0, 999} }

InitSpawner ==
    \E lvl \in 1..MaxLevel : \E diff \in Difficulties :
        LevelEntered([width |-> 500, height |-> 120], 100, lvl, diff, NoUpgrades, {})

NextSpawner == Frame(SpawnerDraws, SpawnerHorizon)

SpecSpawner == InitSpawner /\ [][NextSpawner]_vars

(***************************************************************************)
(* Volley: level 1 on MEDIUM, 500 x 400 canvas, 10 callbacks per second,   *)
(* blast radius level 2 and fire rate level 8 (one shot every 100 ms).     *)
(* Slow Standards fall down the left edge and do not reach the ground      *)
(* within the horizon.  During the first VolleyUntil ms the player fires   *)
(* up to VolleyShots times: at the launch point itself, at a point on the  *)
(* path of the enemies, or far to the right.  The host delivers every      *)
(* callback that was requested (weak fairness).                            *)
(***************************************************************************)
VolleyHorizon == 4500
VolleyUntil == 1200
VolleyShots == 2

InitVolley ==
    LevelEntered([width |-> 500, height |-> 400], 100, 1, "MEDIUM",
                 [NoUpgrades EXCEPT !.radiusLevel = 2, !.rateLevel = 8], {})

NextVolley ==
    \/ Frame(StallDraws, VolleyHorizon)
    \/ /\ clock <= VolleyUntil
       /\ \E p \in { <<250, 380>>, <<50, 100>>, <<450, 200>> } :
              handleCanvasClick(p[1], p[2], VolleyShots)

\* weak fairness of callback delivery: a callback that stays pending runs
SpecVolley ==
    /\ InitVolley
    /\ [][NextVolley]_vars
    /\ WF_clock(/\ raf # "none"
                /\ clock + frameMs <= VolleyHorizon
                /\ clock' = clock + frameMs)

(***************************************************************************)
(* Narrow: level 1 on MEDIUM, no upgrades, 10 callbacks per second, on a   *)
(* canvas 120 px high and either 500 px wide (gap 20 between buildings) or *)
(* 318 px wide, where (width - 360) / 7 is -6 and each building overlaps   *)
(* its neighbour by 6 px.  Standards aim at the first standing building    *)
(* from several start points and the player does nothing.                  *)
(***************************************************************************)
NarrowHorizon == 5200

NarrowDraws ==
    { [target |-> 0, startX |-> x, type |-> 0, typeIdx |-> 0,
       speed |-> 0, interval |-> 999] : x \in {0, 300, 400, 450, 500} }

InitNarrow ==
    \E w \in {318, 500} :
        LevelEntered([width |-> w, height |-> 120], 100, 1, "MEDIUM", NoUpgrades, {})

NextNarrow == Frame(NarrowDraws, NarrowHorizon)

SpecNarrow == InitNarrow /\ [][NextNarrow]_vars

(***************************************************************************)
(* Level end: level 1 on MEDIUM, no upgrades, 500 x 120 canvas, 10         *)
(* callbacks per second.  Every enemy starts at x = 200, aims at the first *)
(* building and comes down in the gap beside it, so that no building       *)
(* falls; the spawner waits its longest until LateFrom and may then send   *)
(* two enemies shortly after one another.  From LateFrom on the player     *)
(* may fire once at a point on their path.                                 *)
(***************************************************************************)
LevelEndHorizon == 30300
LateFrom == 26000

InitLevelEnd ==
    LevelEntered([width |-> 500, height |-> 120], 100, 1, "MEDIUM", NoUpgrades, {})

NextLevelEnd ==
    \/ Frame({ [target |-> 0, startX |-> 400, type |-> 0, typeIdx |-> 0,
                 speed |-> 0, interval |-> v] :
                   v \in (IF clock < LateFrom THEN {999} ELSE {999, 100, 200}) },
             LevelEndHorizon)
    \/ /\ clock >= LateFrom
       /\ \E p \in { <<160, 10>>, <<150, 30>>, <<175, 5>> } :
              handleCanvasClick(p[1], p[2], MaxShots)

SpecLevelEnd == InitLevelEnd /\ [][NextLevelEnd]_vars

(***************************************************************************)
(* Scenario Upgrade: three levels on HARD in which every enemy lands       *)
(* between two buildings, and the shop after each of them.                 *)
(***************************************************************************)
UpgradeHorizon == 91000

NextUpgrade ==
    \/ Frame({GapMiss}, UpgradeHorizon)
    \/ Buy
    \/ nextLevel

SpecUpgrade == InitShop /\ [][NextUpgrade]_vars

(***************************************************************************)
(* Claims                                                                  *)
(***************************************************************************)
Enemies == {refs.enemies[i] : i \in 1..Len(refs.enemies)}
Kills == {ev.kills[k] : k \in 1..Len(ev.kills)}
Hits == {ev.hits[k] : k \in 1..Len(ev.hits)}

\* C1: a Heavy enemy damaged only by turret projectiles (and by nothing the
\* player or another enemy caused) is alive with health 2 after the first hit
\* and health 1 after the second, is removed in the tick of its third hit, and
\* handleKill runs exactly once for it.
C1_HeavyDiesOnThirdTurretHit ==
    /\ \A e \in Enemies :
          e.type = "HEAVY" /\ e.blastHits = 0 => e.health = 3 - e.turretHits
    /\ \A k \in Kills :
          k.type = "HEAVY" /\ k.blastHits = 0 => k.turretHits = 3
    /\ \A k1, k2 \in 1..Len(ev.kills) : ev.kills[k1].id = ev.kills[k2].id => k1 = k2
    /\ \A k \in Kills : \A e \in Enemies : e.id # k.id

\* C2: every enemy has maxHealth 3 (Heavy) or 1 (others), was created with
\* health = maxHealth, and at the end of every tick 0 <= health <= maxHealth;
\* no decrement takes health below zero and nothing raises it.
C2_HealthWithinBounds ==
    /\ \A e \in Enemies :
          /\ e.maxHealth = (IF e.type = "HEAVY" THEN 3 ELSE 1)
          /\ 0 <= e.health /\ e.health <= e.maxHealth
          /\ e.health = e.maxHealth - (e.turretHits + e.sparkHits + e.blastHits)
    /\ \A h \in Hits : h.health >= 0

\* a Heavy enemy that took a hit is still in the registry at the end of a tick
C2_Witness ==
    \E e \in Enemies : e.type = "HEAVY" /\ e.health = 2 /\ e.turretHits = 1

PlayingTick ==
    \/ ev.kind \in {"tick", "gameOver", "levelComplete"}
    \/ ev.kind = "skipped" /\ gameState = "PLAYING"

\* C4: the combo multiplier is an integer in [1, 10] in every reachable state,
\* and so is the multiplier every kill or shield absorption found and left.
C4_MultiplierWithinBounds ==
    /\ refs.multiplier \in 1..10
    /\ \A k \in Kills : k.before \in 1..10 /\ k.mult \in 1..10

\* a kill found the multiplier at the cap and left it there
C4_Witness ==
    \E k \in Kills : k.before = 10 /\ k.gap < COMBO_TIMEOUT /\ refs.multiplier = 10

\* C5 as stated: on every update call of a level that begins with the
\* multiplier above 1, the multiplier is set to 1 during the call if and only if
\* now - lastKillTime > COMBO_TIMEOUT at the call or a building is destroyed in it.
C5_ResetIffTimeoutOrLoss ==
    PlayingTick /\ ev.multAtStart > 1 =>
        (ev.resets # {} <=> (ev.sinceKill > COMBO_TIMEOUT \/ ev.lost > 0))

\* C5 amended: on every update call that the stall guard does not skip and that
\* begins with the multiplier above 1, the multiplier is set to 1 if and only if
\* now - lastKillTime > COMBO_TIMEOUT, or a kill or absorption happens in a tick
\* with now - lastKillTime = COMBO_TIMEOUT exactly, or a building is destroyed;
\* a call skipped by the stall guard (more than 100 ms since the last call)
\* evaluates nothing and leaves the multiplier as it was.
C5_ResetIffTimeoutKillGapOrLoss ==
    /\ ev.kind \in {"tick", "gameOver", "levelComplete"} /\ ev.multAtStart > 1 =>
          (ev.resets # {} <=>
              \/ ev.sinceKill > COMBO_TIMEOUT
              \/ ev.sinceKill = COMBO_TIMEOUT /\ ev.kills # <<>>
              \/ ev.lost > 0)
    /\ ev.kind = "skipped" => ev.resets = {} /\ refs.multiplier = ev.multAtStart

\* a kill exactly COMBO_TIMEOUT after the previous one reset a running streak
C5_Witness ==
    /\ ev.kind = "tick"
    /\ ev.multAtStart > 1
    /\ ev.sinceKill = COMBO_TIMEOUT
    /\ ev.resets = {"kill"}
    /\ refs.multiplier = 1

\* C6: every kill or shield absorption sets the multiplier to
\* min(previous + 1, 10) when less than 2500 ms passed since the previous kill
\* and to 1 otherwise, and is scored ceil(baseScore * diffMult * multiplier)
\* with that updated multiplier; the first kill of a level is scored at 1.
C6_KillScoredWithUpdatedMultiplier ==
    \A k \in Kills :
       /\ k.mult = IF k.gap < 2500
                   THEN (IF k.before + 1 < 10 THEN k.before + 1 ELSE 10)
                   ELSE 1
       /\ 10 * k.score >= baseScore(k.type) * diffMult10(difficulty) * k.mult
       /\ 10 * (k.score - 1) < baseScore(k.type) * diffMult10(difficulty) * k.mult
       /\ k.first => k.mult = 1

\* the first three kills of a level, 1.0 s and 3.0 s apart, scored at 1, 2, 1
C6_Witness ==
    /\ refs.enemiesDestroyed = 3
    /\ refs.buildingsLostInLevel = 0
    /\ Len(hist.kills) = 3
    /\ hist.kills[2][1] - hist.kills[1][1] = 1000
    /\ hist.kills[3][1] - hist.kills[2][1] = 3000
    /\ <<hist.kills[1][2], hist.kills[2][2], hist.kills[3][2]>> = <<1, 2, 1>>
    /\ ev.kills # <<>>

\* C7: the first kill or shield absorption after a building was destroyed is
\* scored with multiplier 1, whatever the time since the previous kill.
C7_KillAfterLossScoresOne ==
    \A k \in Kills : k.afterLoss => k.mult = 1

\* C8: shield energy is always within [0, 100 x shieldLevel], and every
\* absorption takes it from e to max(0, e - 30).
C8_ShieldEnergyWithinBounds ==
    /\ 0 <= refs.shieldEnergy
    /\ refs.shieldEnergy <= 100 * upgrades.shieldLevel
    /\ \A i \in 1..Len(ev.absorbs) :
          /\ ev.absorbs[i][2] = (IF ev.absorbs[i][1] > 30 THEN ev.absorbs[i][1] - 30 ELSE 0)
          /\ i < Len(ev.absorbs) => ev.absorbs[i + 1][1] = ev.absorbs[i][2]
    /\ ev.absorbs # <<>> => refs.shieldEnergy = ev.absorbs[Len(ev.absorbs)][2]

\* four absorptions from a full shield of 100 left 70, 40, 10 and 0
C8_Witness ==
    /\ upgrades.shieldLevel = 1
    /\ hist.energies = <<70, 40, 10, 0>>
    /\ refs.shieldEnergy = 0
    /\ ev.absorbs # <<>>

\* a run begins: PLAYING is entered at level 1 from outside the game
LevelOneInit ==
    /\ gameState \notin {"PLAYING", "PAUSED"}
    /\ gameState' = "PLAYING"
    /\ level' = 1

\* C9: a destroyed building stays destroyed for the rest of the run: no tick,
\* no entry into a level >= 2 and no resume from pause replaces the building
\* list or clears a destroyed flag; only a level-1 initialisation gives six
\* fresh buildings.
C9_DestroyedStaysDestroyed ==
    [][IF LevelOneInit
       THEN /\ Len(refs'.buildings) = 6
            /\ \A b \in 1..6 : ~refs'.buildings[b].isDestroyed
       ELSE \A b \in 1..Len(refs.buildings) :
               /\ Len(refs'.buildings) = Len(refs.buildings)
               /\ refs'.buildings[b].id = refs.buildings[b].id
               /\ refs.buildings[b].isDestroyed => refs'.buildings[b].isDestroyed]_vars

\* level 2 was entered with a building lost in level 1, and the game has just
\* been resumed from a pause there
C9_Witness ==
    /\ gameState = "PLAYING"
    /\ level = 2
    /\ ev.kind = "togglePause"
    /\ refs.buildingsLostInLevel = 0
    /\ \E b \in 1..Len(refs.buildings) : refs.buildings[b].isDestroyed

NoneStanding == \A b \in 1..Len(refs.buildings) : refs.buildings[b].isDestroyed

\* C10: a tick calls onGameOver exactly when an enemy reached the ground in
\* it and no building stands afterwards; the call comes in the tick that
\* destroyed the last building, happens once per run, and no gameplay tick of
\* that level follows it.
C10_GameOverIffAllDestroyed ==
    /\ ev.gameOverCalls = (IF ev.kind \in {"tick", "gameOver"} /\ ev.impacts > 0 /\ NoneStanding
                           THEN 1 ELSE 0)
    /\ ev.gameOverCalls = 1 => ev.kind = "gameOver" /\ ev.lost > 0
    /\ hist.gameOvers <= 1
    /\ hist.gameOvers = 1 <=> (NoneStanding /\ Len(refs.buildings) = 6)
    /\ hist.gameOvers = 1 =>
          /\ gameState \in {"GAME_OVER", "MENU"}
          /\ ev.kind \in {"gameOver", "gameOverAnimation", "skipped", "quitToMenu"}
          /\ ev.kind = "gameOver" => ev.gameOverCalls = 1

\* the tick in which the sixth building fell called onGameOver
C10_Witness ==
    /\ ev.kind = "gameOver"
    /\ ev.gameOverCalls = 1
    /\ ev.lost > 0
    /\ gameState = "GAME_OVER"
    /\ NoneStanding

\* C11: while PLAYING, the first tick at which the level time reaches 30 s
\* calls onLevelComplete once, with buildingsLost = buildings destroyed since
\* the level was initialised (0 when none fell) and enemiesDestroyed = enemies
\* of this level that left the sky without reaching the ground (kills and
\* shield absorptions).
C11_LevelCompleteOnceWithStats ==
    /\ ev.levelCompleteCalls =
          (IF ev.kind \in {"tick", "gameOver", "levelComplete"}
              /\ refs.levelTime >= LEVEL_DURATION * 1000
           THEN 1 ELSE 0)
    /\ gameState = "PLAYING" => refs.levelTime < LEVEL_DURATION * 1000
    /\ ev.levelCompleteCalls = 1 =>
          /\ ev.kind = "levelComplete"
          /\ gameState = "LEVEL_COMPLETE"
          /\ refs.levelTime - ev.delta < LEVEL_DURATION * 1000
          /\ ev.stats = <<NumDestroyed(refs.buildings) - hist.destroyedAtInit,
                          hist.spawned - hist.landed - Len(refs.enemies)>>
    /\ gameState = "LEVEL_COMPLETE" =>
          /\ refs.levelTime >= LEVEL_DURATION * 1000
          /\ ev.kind \in {"levelComplete", "buyUpgrade"}

\* the level ended with one building lost and several enemies absorbed or
\* shot down
C11_Witness ==
    /\ ev.kind = "levelComplete"
    /\ ev.stats[1] = 1
    /\ ev.stats[2] >= 2
    /\ hist.landed >= 2

\* an animation callback of a running chain fires in this step
LoopCallback == raf = "loop" /\ clock' > clock /\ ev'.kind # "idle"

\* C12: a tick whose delta-time exceeds 0.1 s changes only the stored
\* previous timestamp: level timer, spawn schedule, entities, buildings,
\* shield energy, multiplier, per-level stats and score stay as they were.
C12_StalledTickChangesOnlyBaseline ==
    [][(LoopCallback /\ clock' - refs.lastTime > 100)
          => /\ refs' = [refs EXCEPT !.lastTime = clock']
             /\ displayScore' = displayScore
             /\ gameState' = gameState
             /\ <<credits, buildingsRemaining, highScore>>' =
                    <<credits, buildingsRemaining, highScore>>]_vars

\* a tick was skipped with an enemy in flight
C12_Witness ==
    /\ ev.kind = "skipped"
    /\ ev.delta > 100
    /\ gameState = "PLAYING"
    /\ refs.enemies # <<>>
    /\ refs.lastTime = clock

LevelOver == gameState \in {"LEVEL_COMPLETE", "GAME_OVER"}

\* C13: after a tick was skipped for an excessive delta-time while PLAYING,
\* ticks keep coming and the level eventually reaches LEVEL_COMPLETE or
\* GAME_OVER without any user action.
C13_StallIsSurvivable ==
    (gameState = "PLAYING" /\ ev.kind = "skipped") ~> LevelOver

\* C14: while PAUSED no animation callback is pending and no step changes
\* gameplay state or score (a click does nothing); the step that resumes
\* PLAYING does not re-run level initialisation, so the level goes on from
\* the entities and timers it was paused with.
C14_PausedChangesNothing ==
    [][gameState = "PAUSED"
          => /\ raf = "none"
             /\ refs' = refs
             /\ displayScore' = displayScore
             /\ <<level, credits, buildingsRemaining, upgrades>>' =
                    <<level, credits, buildingsRemaining, upgrades>>
             /\ gameState' \in {"PAUSED", "PLAYING", "MENU"}]_vars

\* the game was resumed after a pause of at least PauseMs with an enemy and
\* an interceptor in flight
C14_Witness ==
    /\ gameState = "PLAYING"
    /\ ev.kind = "togglePause"
    /\ idles >= 1
    /\ refs.enemies # <<>>
    /\ refs.interceptors # <<>>
    /\ refs.levelTime > 0
    /\ raf = "first"

\* the first animation callback of a chain fires in this step
FirstCallback == raf = "first" /\ clock' > clock /\ ev'.kind # "idle"

\* C15: the first tick after entering or resuming PLAYING measures its
\* delta-time from the moment the chain was started: it is never skipped by
\* the stall guard and does not advance the level timer by the time spent
\* paused.
C15_FirstTickStartsFromRestart ==
    [][FirstCallback
          => /\ ev'.first
             /\ ev'.delta = 0
             /\ ev'.kind # "skipped"
             /\ refs'.lastTime = clock'
             /\ refs'.levelTime = refs.levelTime]_vars

\* the first tick after a resume ran as a gameplay tick more than PauseMs
\* after the last tick before the pause
C15_Witness ==
    /\ gameState = "PLAYING"
    /\ ev.first
    /\ ev.kind = "tick"
    /\ ev.gap > PauseMs
    /\ ev.delta = 0
    /\ refs.levelTime > 0

Edges ==
    { <<"MENU", "PLAYING">>, <<"PLAYING", "PAUSED">>, <<"PAUSED", "PLAYING">>,
      <<"PAUSED", "MENU">>, <<"PLAYING", "LEVEL_COMPLETE">>,
      <<"LEVEL_COMPLETE", "PLAYING">>, <<"PLAYING", "GAME_OVER">>,
      <<"GAME_OVER", "MENU">> }

\* C16: the session state changes only along MENU->PLAYING, PLAYING->PAUSED,
\* PAUSED->PLAYING, PAUSED->MENU, PLAYING->LEVEL_COMPLETE,
\* LEVEL_COMPLETE->PLAYING, PLAYING->GAME_OVER and GAME_OVER->MENU, whatever
\* the order of user actions and animation callbacks.
C16_OnlyListedEdges ==
    [][gameState' # gameState => <<gameState, gameState'>> \in Edges]_vars

\* the player is back in the menu after a game over in level 2
C16_Witness ==
    /\ gameState = "MENU"
    /\ ev.kind = "quitToMenu"
    /\ level = 2
    /\ hist.gameOvers = 1

\* every transient collection is empty and every per-level value is back at
\* its start in the refs r
FreshLevel(r) ==
    /\ r.enemies = <<>> /\ r.interceptors = <<>>
    /\ r.explosions = <<>> /\ r.projectiles = <<>>
    /\ r.levelTime = 0 /\ r.nextSpawnTime = 0
    /\ r.buildingsLostInLevel = 0 /\ r.enemiesDestroyed = 0
    /\ r.multiplier = 1

\* C17: entering PLAYING from LEVEL_COMPLETE raises the level by exactly 1
\* and re-initialises the level: enemies, interceptors, explosions and turret
\* projectiles are gone, level time and next-spawn time are 0, per-level
\* stats are 0, the multiplier is 1, and shield energy is 100 x the shield
\* level as it stands after the purchases in the shop.
C17_NextLevelReinitialises ==
    [][(gameState = "LEVEL_COMPLETE" /\ gameState' = "PLAYING")
          => /\ level' = level + 1
             /\ FreshLevel(refs')
             /\ upgrades' = upgrades
             /\ refs'.shieldEnergy = 100 * upgrades.shieldLevel]_vars

\* level 2 began with a shield bought in the shop after level 1, charged to
\* 100, and the entities left over from level 1 were discarded
C17_Witness ==
    /\ ev.kind = "nextLevel"
    /\ level = 2
    /\ gameState = "PLAYING"
    /\ ev.before[1].entities > 0
    /\ ev.before[1].shieldEnergy = 0
    /\ upgrades.shieldLevel = 1
    /\ refs.shieldEnergy = 100
    /\ refs.enemies = <<>>

\* C18: starting from MENU always gives level 1, credits 0, all upgrade
\* levels 0, six standing buildings, score 0, shield energy 0 and no
\* entities, however the previous run ended.
C18_StartGameResetsRun ==
    [][(gameState = "MENU" /\ gameState' = "PLAYING")
          => /\ level' = 1
             /\ credits' = 0
             /\ upgrades' = NoUpgrades
             /\ Len(refs'.buildings) = 6
             /\ \A b \in 1..6 : ~refs'.buildings[b].isDestroyed
             /\ displayScore' = 0
             /\ refs'.shieldEnergy = 0
             /\ FreshLevel(refs')]_vars

\* a new run began after a run that was quit in level 2 with a shield
\* bought, points scored and a building lost
C18_Witness ==
    /\ ev.kind = "startGame"
    /\ ev.before[1].level = 2
    /\ ev.before[1].score > 0
    /\ ev.before[1].destroyed > 0
    /\ ev.before[1].shieldLevel = 1
    /\ level = 1
    /\ displayScore = 0
    /\ refs.shieldEnergy = 0

\* the refs without the scheduler's timestamp and the start time of the
\* game-over animation
GameplayRefs(r) == [r EXCEPT !.lastTime = 0, !.gameOverStart = 0]

\* C19: gameplay state and score change only in a step taken in PLAYING or
\* entering PLAYING; no animation callback is pending in MENU, PAUSED or
\* LEVEL_COMPLETE, and the callbacks that run in GAME_OVER leave gameplay
\* state alone.
C19_GameplayOnlyWhilePlaying ==
    [][/\ gameState \in {"MENU", "PAUSED", "LEVEL_COMPLETE"} => raf = "none"
       /\ gameState' \in {"MENU", "PAUSED", "LEVEL_COMPLETE"} => raf' = "none"
       /\ (gameState # "PLAYING" /\ gameState' # "PLAYING")
             => /\ GameplayRefs(refs') = GameplayRefs(refs)
                /\ displayScore' = displayScore
       /\ (gameState # "PLAYING" /\ gameState' = "PLAYING")
             => ev'.kind \in {"startGame", "nextLevel", "togglePause"}]_vars

\* an animation frame ran in GAME_OVER with explosions still on the field
C19_Witness ==
    /\ gameState = "GAME_OVER"
    /\ ev.kind = "gameOverAnimation"
    /\ ~ev.first
    /\ refs.gameOverStart > 0
    /\ refs.explosions # <<>>

\* C20: the score handed to onGameOver, and compared with the high score,
\* is the score the player has accumulated when the last building falls,
\* kills of the current level up to that tick included.
C20_GameOverScoreIsAccumulated ==
    ev.finalScore # <<>> =>
        /\ ev.finalScore[1] = displayScore
        /\ highScore >= displayScore

\* base score of each archetype and difficulty multiplier in tenths, as the
\* scoring rule states them
ScoreOf ==
    [STANDARD |-> 10, FAST |-> 20, BULLET |-> 25, WOBBLY |-> 30, LASER |-> 35,
     HEAVY |-> 40, BOMB |-> 40]
DiffOf10 == [EASY |-> 8, MEDIUM |-> 10, HARD |-> 15]

RECURSIVE SumScores(_, _)
SumScores(kills, n) == IF n = 0 THEN 0 ELSE kills[n].score + SumScores(kills, n - 1)

\* C21: each kill or shield absorption adds exactly
\* ceil(baseScore x difficultyMultiplier x comboMultiplier) to the score, with
\* baseScore 10/20/25/30/35/40/40 for Standard/Fast/Bullet/Wobbly/Laser/Heavy/
\* Bomb, difficultyMultiplier 0.8/1/1.5 for Easy/Medium/Hard and the combo
\* multiplier as it is after the combo update of that kill; a tick adds the
\* sum of its kills and nothing else.
C21_KillAddsCeilOfProduct ==
    [][ev'.kind \in {"tick", "gameOver", "levelComplete", "skipped", "gameOverAnimation"}
          => /\ \A k \in 1..Len(ev'.kills) :
                   LET kill == ev'.kills[k]
                       product10 == ScoreOf[kill.type] * DiffOf10[difficulty] * kill.mult
                       after == IF k < Len(ev'.kills) THEN ev'.kills[k + 1].before
                                ELSE IF ev'.lost > 0 THEN kill.mult
                                ELSE refs'.multiplier
                   IN /\ 10 * kill.score >= product10
                      /\ 10 * (kill.score - 1) < product10
                      /\ kill.mult = after
             /\ displayScore' = displayScore + SumScores(ev'.kills, Len(ev'.kills))]_vars

\* a Bullet was absorbed on HARD as the third kill of a streak and scored
\* ceil(25 x 1.5 x 3) = 113
C21_Witness ==
    /\ difficulty = "HARD"
    /\ \E k \in Kills : k.type = "BULLET" /\ k.mult = 3 /\ k.score = 113
    /\ refs.multiplier = 3

\* the identities in a sequence of enemies or of kill records
IdsOf(seq) == {seq[i].id : i \in 1..Len(seq)}
Range(seq) == {seq[i] : i \in 1..Len(seq)}

\* an update call ran in this step
UpdateStep ==
    ev'.kind \in {"tick", "gameOver", "levelComplete", "skipped", "gameOverAnimation"}

\* C22: every enemy leaves the registry through exactly one outcome (turret
\* kill, shield absorption, explosion kill, or impact) in the tick of that
\* outcome: no enemy is both killed and landed or killed twice, an enemy with
\* an outcome is gone and an enemy that is gone has an outcome, buildings
\* fall only in ticks with an impact, and enemiesDestroyed grows by exactly
\* the number of kills and absorptions, impacts not counted.
C22_OneOutcomePerEnemy ==
    [][UpdateStep =>
         LET outcomes == [k \in 1..Len(ev'.kills) |-> ev'.kills[k].id] \o ev'.landedIds
         IN /\ \A a, b \in 1..Len(outcomes) : outcomes[a] = outcomes[b] => a = b
            /\ \A k \in 1..Len(ev'.kills) :
                   ev'.kills[k].via \in {"turret", "shield", "explosion"}
            /\ Range(outcomes) \cap IdsOf(refs'.enemies) = {}
            /\ IdsOf(refs.enemies) \ IdsOf(refs'.enemies) \subseteq Range(outcomes)
            /\ Len(refs'.enemies) =
                   Len(refs.enemies) + ev'.spawned - Len(outcomes)
            /\ Len(ev'.landedIds) = ev'.impacts
            /\ ev'.lost > 0 => ev'.impacts > 0
            /\ refs'.enemiesDestroyed = refs.enemiesDestroyed + Len(ev'.kills)]_vars

\* a blast killed an enemy in the tick in which it crossed the impact line:
\* it left its kill explosion there, did not land and destroyed no building
C22_Witness ==
    /\ Len(ev.kills) = 1
    /\ ev.kills[1].via = "explosion"
    /\ \E i \in 1..Len(refs.explosions) :
          /\ refs.explosions[i].maxRadius = 300
          /\ refs.explosions[i].currentRadius = 50
          /\ refs.explosions[i].y >= canvas.height - 40
    /\ ev.impacts = 0
    /\ ev.lost = 0
    /\ refs.enemiesDestroyed >= 1

\* a malformed (negative) count read as the lowest valid one
Lowest(n) == IF n < 0 THEN 0 ELSE n

Explosions == {refs.explosions[i] : i \in 1..Len(refs.explosions)}

\* C24: for every live explosion currentRadius never exceeds maxRadius: the
\* radius stops growing once maxRadius is reached and stays frozen while
\* alpha fades, so an enemy is damaged only if it is within maxRadius of the
\* centre.
C24_RadiusStopsAtMax ==
    /\ \A exp \in Explosions : exp.currentRadius <= exp.maxRadius
    /\ \A exp \in Explosions : exp.alpha < 1000 => exp.currentRadius = exp.maxRadius
    /\ \A h \in Hits : ~h.beyond

\* C25: the spark emitted when an enemy survives a hit is cosmetic: it never
\* reduces the health of the enemy that produced it, so a Heavy at full
\* health caught in one interceptor blast ends that tick alive with health 2,
\* and a Heavy that no turret projectile touched dies only of three blasts.
C25_SparkIsNonLethal ==
    /\ \A e \in Enemies : e.sparkHits = 0
    /\ \A e \in Enemies : e.type = "HEAVY" => e.health = 3 - (e.turretHits + e.blastHits)
    /\ \A k \in Kills : k.sparkHits = 0
    /\ \A k \in Kills : k.type = "HEAVY" /\ k.turretHits = 0 => k.blastHits = 3

\* C26: every explosion has an identity different from that of every other
\* explosion alive with it, explosions created in the same tick or the same
\* millisecond included, so that an enemy's hit record never names two
\* explosions at once.
C26_ExplosionIdsDistinct ==
    /\ \A i, j \in 1..Len(refs.explosions) :
           refs.explosions[i].id = refs.explosions[j].id => i = j
    /\ \A e \in Enemies : Cardinality(e.hitByExplosionIds) = Cardinality(e.hitUids)

\* the enemy e is inside the dome of a shield with the given energy: within
\* 180 x (0.9 + 0.1 x energy / maximum) px of (width / 2, height - 20)
InsideDome(e, energy) ==
    LET dx == e.x - (canvas.width \div 2)
        dy == e.y - (canvas.height - 20)
        radius10 == 1620 + (180 * energy) \div (100 * upgrades.shieldLevel)
    IN 100 * (dx * dx + dy * dy) < radius10 * radius10

\* C27: with shield level > 0 and shield energy > 0 an enemy that comes
\* within the shield radius is removed in that tick whatever its health, is
\* counted and scored as a kill, and is not evaluated against explosions or
\* the ground in that tick; with shield energy 0 or shield level 0 no enemy
\* is absorbed.
C27_ShieldAbsorbsUnconditionally ==
    [][UpdateStep =>
         LET absorbed == {k \in 1..Len(ev'.kills) : ev'.kills[k].via = "shield"}
         IN /\ Cardinality(absorbed) = Len(ev'.absorbs)
            /\ \A a \in 1..Len(ev'.absorbs) : ev'.absorbs[a][1] > 0
            /\ absorbed # {} => upgrades.shieldLevel > 0 /\ refs.shieldEnergy > 0
            /\ \A k \in absorbed :
                   /\ ev'.kills[k].id \notin IdsOf(refs'.enemies)
                   /\ ev'.kills[k].id \notin Range(ev'.landedIds)
                   /\ \A h \in 1..Len(ev'.hits) : ev'.hits[h].enemy # ev'.kills[k].id
                   /\ ev'.kills[k].score > 0
            /\ refs'.enemiesDestroyed >= refs.enemiesDestroyed + Cardinality(absorbed)
            /\ (ev'.kind = "tick" /\ upgrades.shieldLevel > 0 /\ refs'.shieldEnergy > 0)
                   => \A i \in 1..Len(refs'.enemies) :
                         ~InsideDome(refs'.enemies[i], refs'.shieldEnergy)]_vars

\* a Heavy at full health was absorbed in the tick that spawned it, by the
\* last 10 points of shield energy
C27_Witness ==
    /\ upgrades.shieldLevel = 1
    /\ ev.absorbs = << <<10, 0>> >>
    /\ Len(ev.kills) = 1
    /\ ev.kills[1].type = "HEAVY"
    /\ ev.kills[1].via = "shield"
    /\ ev.kills[1].turretHits + ev.kills[1].sparkHits + ev.kills[1].blastHits = 0
    /\ ev.spawned = 1
    /\ refs.enemies = <<>>
    /\ refs.enemiesDestroyed = 4
    /\ refs.shieldEnergy = 0

\* C28: an enemy is spawned in a tick only if the level time has passed the
\* scheduled next-spawn time and at least one building stands; at most one
\* enemy is spawned per tick, and its target X is the horizontal centre of a
\* building that stands at spawn time.
C28_SpawnOnlyWhenDueAtStandingBuilding ==
    [][UpdateStep =>
         /\ ev'.spawned \in {0, 1}
         /\ Len(ev'.spawnTargets) = ev'.spawned
         /\ ev'.spawned = 1 =>
               /\ gameState = "PLAYING"
               /\ refs'.levelTime > refs.nextSpawnTime
               /\ \E b \in 1..Len(refs.buildings) :
                      /\ ~refs.buildings[b].isDestroyed
                      /\ 2 * ev'.spawnTargets[1] =
                             2 * refs.buildings[b].x + refs.buildings[b].width
         /\ IdsOf(refs'.enemies) \ IdsOf(refs.enemies) # {} => ev'.spawned = 1]_vars

\* an enemy has just been spawned towards the only building still standing
C28_Witness ==
    /\ ev.spawned = 1
    /\ NumDestroyed(refs.buildings) = 5
    /\ refs.enemies # <<>>
    /\ \E b \in 1..Len(refs.buildings) :
          /\ ~refs.buildings[b].isDestroyed
          /\ Last(refs.enemies).targetX = refs.buildings[b].x + 30

\* the level at which a type is first seen on a difficulty
UnlockLevel(diff, type) ==
    LET row == CASE diff = "MEDIUM" -> <<2, 3, 4, 5, 6, 7>>
                 [] diff = "EASY" -> <<3, 4, 6, 7, 8, 9>>
                 [] diff = "HARD" -> <<1, 2, 3, 3, 5, 5>>
    IN CASE type = "FAST" -> row[1]
         [] type = "BOMB" -> row[2]
         [] type = "HEAVY" -> row[3]
         [] type = "BULLET" -> row[4]
         [] type = "WOBBLY" -> row[5]
         [] type = "LASER" -> row[6]

\* C29: an enemy spawned in a tick is Standard, or the level is at least the
\* unlock level of its type on the difficulty played (Fast, Bomb, Heavy,
\* Bullet, Wobbly, Laser: Medium 2/3/4/5/6/7, Easy 3/4/6/7/8/9, Hard
\* 1/2/3/3/5/5), whether the type was picked from the unlocked list or forced
\* to Fast by the Hard-mode override.
C29_TypeOnlyFromUnlockLevel ==
    [][UpdateStep =>
         /\ Len(ev'.spawnTypes) = ev'.spawned
         /\ \A k \in 1..Len(ev'.spawnTypes) :
               \/ ev'.spawnTypes[k] = "STANDARD"
               \/ /\ ev'.spawnTypes[k] \in EnemyTypes
                  /\ level >= UnlockLevel(difficulty, ev'.spawnTypes[k])
         /\ \A i \in 1..Len(refs'.enemies) :
               refs'.enemies[i].id \notin IdsOf(refs.enemies)
                   => refs'.enemies[i].type = ev'.spawnTypes[1]]_vars

\* a Laser has just been spawned on EASY at level 9, the first level that
\* has it
C29_Witness ==
    /\ ev.spawned = 1
    /\ refs.enemies # <<>>
    /\ Last(refs.enemies).type = "LASER"
    /\ ev.spawnTypes = <<"LASER">>
    /\ difficulty = "EASY"
    /\ level = 9

\* the delay, in ms, between the level time and the next spawn scheduled
SpawnDelay(r) == r.nextSpawnTime - r.levelTime

\* the upper end of the delay, in ms: 0.4 s at least, times 1.3, 1 or 0.7
RateCeiling(lvl, diff) ==
    LET base == IF 2500 - 150 * lvl < 400 THEN 400 ELSE 2500 - 150 * lvl
    IN CASE diff = "EASY" -> (base * 13) \div 10
         [] diff = "HARD" -> (base * 7) \div 10
         [] diff = "MEDIUM" -> base

\* C30 as amended: after a spawn the next spawn is scheduled at the level
\* time plus a delay that is never negative and always below the spawn rate
\* max(0.4 s, 2.5 s - 0.15 s * level) * (1.3 Easy, 1 Medium, 0.7 Hard);
\* the floor bounds the rate, which is 0.28 s at least, not the delay.
C30_DelayBelowFlooredRate ==
    [][UpdateStep /\ ev'.spawned = 1 =>
         /\ SpawnDelay(refs') >= 0
         /\ SpawnDelay(refs') < RateCeiling(level, difficulty)
         /\ RateCeiling(level, difficulty) >= 280]_vars

\* C30 as stated: after a spawn the next spawn is scheduled later than the
\* level time by a positive minimum delay (1 ms is the weakest such floor)
C30_DelayAtLeastFloor ==
    [][UpdateStep /\ ev'.spawned = 1 => SpawnDelay(refs') >= 1]_vars

\* a spawn on HARD at level 18, where the 0.4 s floor sets the rate to
\* 0.28 s, has scheduled the next spawn 279 ms later
C30_Witness ==
    /\ ev.spawned = 1
    /\ difficulty = "HARD"
    /\ level = 18
    /\ 2500 - 150 * level < 400
    /\ SpawnDelay(refs) = 279

\* C31: every spawn was preceded by exactly one warning cue since it was
\* scheduled, and no scheduled spawn is ever announced twice.
C31_OneCuePerSpawn ==
    /\ \A k \in 1..Len(ev.cuesAtSpawn) : ev.cuesAtSpawn[k] = 1
    /\ hist.cues <= 1

\* the explosions of r that are not in the registry before the step
NewExplosions(r) ==
    {e \in Range(r.explosions) : \A k \in 1..Len(refs.explosions) :
                                     refs.explosions[k].uid # e.uid}

\* the remaining distance of interceptor m is less than speed x delta-time,
\* both in 1/10 pixel (speed in px/s times delta in ms is a multiple of 100)
Arrives(m, delta) ==
    LET dx == m.targetX - m.x
        dy == m.targetY - m.y
        reach == (m.speed * delta) \div 100
    IN /\ reach > 0
       /\ 100 * (dx * dx + dy * dy) < reach * reach

\* C32: an interceptor in flight keeps its target point; a tick removes it
\* exactly when its remaining distance is less than speed x delta-time, and
\* that tick adds exactly one explosion per removed interceptor, centred on
\* its target with maxRadius 60 + 15 x radiusLevel; a tick adds no
\* interceptor and removes none otherwise.
C32_InterceptorEndsInOneExplosion ==
    [][/\ \A k \in 1..Len(refs'.interceptors) :
             LET m == refs'.interceptors[k]
             IN m.id \in IdsOf(refs.interceptors) =>
                    \E j \in 1..Len(refs.interceptors) :
                        /\ refs.interceptors[j].id = m.id
                        /\ refs.interceptors[j].targetX = m.targetX
                        /\ refs.interceptors[j].targetY = m.targetY
       /\ ev'.kind \in {"levelComplete", "skipped", "gameOverAnimation"} =>
             refs'.interceptors = refs.interceptors
       /\ ev'.kind \in {"tick", "gameOver"} =>
             /\ IdsOf(refs'.interceptors) \subseteq IdsOf(refs.interceptors)
             /\ \A j \in 1..Len(refs.interceptors) :
                   LET m == refs.interceptors[j]
                       blasts == {e \in NewExplosions(refs') :
                                     /\ e.x = m.targetX
                                     /\ e.y = m.targetY
                                     /\ e.maxRadius =
                                            10 * (60 + 15 * upgrades.radiusLevel)}
                       arrived == {n \in 1..Len(refs.interceptors) :
                                     /\ refs.interceptors[n].id
                                            \notin IdsOf(refs'.interceptors)
                                     /\ refs.interceptors[n].targetX = m.targetX
                                     /\ refs.interceptors[n].targetY = m.targetY}
                   IN /\ m.id \notin IdsOf(refs'.interceptors)
                            <=> Arrives(m, ev'.delta)
                      /\ Cardinality(blasts) = Cardinality(arrived)
             /\ Cardinality({e \in NewExplosions(refs') :
                                e.maxRadius = 10 * (60 + 15 * upgrades.radiusLevel)})
                   = Len(refs.interceptors) - Len(refs'.interceptors)]_vars

\* two interceptors were in flight; the tick removed the one that arrived and
\* left its blast at the target, the other one flies on
C32_Witness ==
    /\ ev.kind = "tick"
    /\ shots = 2
    /\ Len(refs.interceptors) = 1
    /\ refs.interceptors[1].id = 2
    /\ refs.interceptors[1].x # canvas.width \div 2
    /\ \E e \in Explosions :
          /\ e.x = 50 /\ e.y = 100
          /\ e.maxRadius = 900
          /\ e.currentRadius = 10 + ev.delta

\* the serial numbers an explosion can carry within the horizons explored
MaxSerial == 16

ExplosionAlive(u) == \E k \in 1..Len(refs.explosions) : refs.explosions[k].uid = u

\* C33: while the host keeps delivering ticks, every explosion in the
\* registry is eventually removed from it.  In every tick its radius grows
\* by 100 px/s; once the radius has passed maxRadius alpha falls by 2 per
\* second in every tick, and the explosion is pruned in the tick that takes
\* alpha to zero or below, and in no other.
C33_ExplosionEventuallyRemoved ==
    /\ \A u \in 1..MaxSerial : ExplosionAlive(u) ~> ~ExplosionAlive(u)
    /\ [](refs.serial <= MaxSerial + 1)
    /\ [][ev'.kind \in {"tick", "gameOver"} =>
           \A k \in 1..Len(refs.explosions) :
               LET exp == refs.explosions[k]
                   radius == exp.currentRadius + ev'.delta
                   alpha == IF radius > exp.maxRadius
                            THEN exp.alpha - 2 * ev'.delta ELSE exp.alpha
                   after == {e \in Range(refs'.explosions) : e.uid = exp.uid}
               IN IF radius > exp.maxRadius /\ alpha <= 0
                  THEN after = {}
                  ELSE /\ Cardinality(after) = 1
                       /\ \A e \in after : /\ e.currentRadius = radius
                                            /\ e.alpha = alpha
                                            /\ e.maxRadius = exp.maxRadius]_vars

\* both blasts of the volley have grown, faded and been pruned, and so has
\* every explosion they caused
C33_Witness ==
    /\ ev.kind = "tick"
    /\ ev.delta > 0
    /\ shots = 2
    /\ refs.interceptors = <<>>
    /\ refs.explosions = <<>>
    /\ refs.enemiesDestroyed >= 1

\* the buildings that stand before the step and are destroyed after it
Flipped ==
    {b \in 1..Len(refs.buildings) :
        ~refs.buildings[b].isDestroyed /\ refs'.buildings[b].isDestroyed}

\* C34: with the generated six-building layout one impact destroys at most
\* one building, and in every tick buildingsLost grows by exactly the number
\* of buildings whose destroyed flag flipped, so that a destroyed building is
\* never counted again.
C34_OneBuildingPerImpact ==
    [][ev'.kind \in {"tick", "gameOver"} =>
         /\ \A k \in 1..Len(ev'.lostPer) : ev'.lostPer[k] <= 1
         /\ refs'.buildingsLostInLevel =
                refs.buildingsLostInLevel + Cardinality(Flipped)]_vars

\* C35: the first tick after a resume leaves the combo multiplier as it was
\* when the game was paused, however long the pause lasted, unless that tick
\* has a kill or a building loss.  (initLevel leaves the multiplier at 1, so
\* a first callback that finds it above 1 follows a resume.)
C35_PauseKeepsCombo ==
    [][(/\ gameState = "PLAYING"
        /\ raf = "first"
        /\ refs.multiplier > 1
        /\ UpdateStep
        /\ ev'.kills = <<>>
        /\ ev'.lost = 0)
          => refs'.multiplier = refs.multiplier]_vars

\* a callback of the level (onLevelComplete or onGameOver) is invoked only
\* by a tick of a level in play, one per tick, and ends the level: PLAYING is
\* entered again only by initLevel for another level
OneCallbackPerLevel ==
    /\ ev'.levelCompleteCalls + ev'.gameOverCalls >= 1 =>
          /\ ev'.levelCompleteCalls + ev'.gameOverCalls = 1
          /\ gameState = "PLAYING"
          /\ gameState' = IF ev'.levelCompleteCalls = 1
                          THEN "LEVEL_COMPLETE" ELSE "GAME_OVER"
    /\ gameState \in {"LEVEL_COMPLETE", "GAME_OVER"} =>
          /\ UpdateStep => ev'.levelCompleteCalls + ev'.gameOverCalls = 0
          /\ gameState' = "PLAYING" =>
                /\ level' = level + 1
                /\ refs'.levelTime = 0
                /\ refs'.buildingsLostInLevel = 0

\* C36 as amended: the tick in which the level timer expires invokes
\* onLevelComplete before any spawning, movement or collision resolution; it
\* advances lastTime and levelTime and, because the combo timeout check runs
\* before the level timer, may reset the multiplier to 1, and mutates nothing
\* else.  The two callbacks are never invoked in the same tick and at most
\* one of them is invoked per level.
C36_LevelCompleteTickOnlyTimesOut ==
    [][/\ OneCallbackPerLevel
       /\ ev'.kind = "levelComplete" <=>
             (/\ UpdateStep
              /\ gameState = "PLAYING"
              /\ ev'.delta <= 100
              /\ refs.levelTime + ev'.delta >= LEVEL_DURATION * 1000)
       /\ ev'.kind = "levelComplete" =>
             /\ ev'.levelCompleteCalls = 1
             /\ ev'.spawned = 0 /\ ev'.kills = <<>> /\ ev'.impacts = 0
             /\ ev'.stats = <<refs.buildingsLostInLevel, refs.enemiesDestroyed>>
             /\ displayScore' = displayScore
             /\ refs' = [refs EXCEPT
                            !.lastTime = clock',
                            !.levelTime = @ + ev'.delta,
                            !.multiplier =
                                IF @ > 1 /\ DateNow(clock') - refs.lastKillTime
                                              > COMBO_TIMEOUT
                                THEN 1 ELSE @]]_vars

\* C36 as stated: the tick in which the level timer expires mutates nothing
\* but the timer; the two callbacks are never invoked in the same tick and
\* at most one of them is invoked per level.
C36_LevelCompleteTickMutatesNothing ==
    [][/\ OneCallbackPerLevel
       /\ ev'.kind = "levelComplete" =>
             /\ ev'.levelCompleteCalls = 1
             /\ displayScore' = displayScore
             /\ refs' = [refs EXCEPT !.lastTime = clock',
                                     !.levelTime = @ + ev'.delta]]_vars

\* the level timer has expired in the tick in which the combo window of the
\* last kill closed: the level is complete with enemies and the multiplier
\* reset, 2.6 s after a kill at multiplier 2
C36_Witness ==
    /\ ev.kind = "levelComplete"
    /\ gameState = "LEVEL_COMPLETE"
    /\ ev.multAtStart = 2
    /\ refs.multiplier = 1
    /\ ev.resets = {"timeout"}
    /\ ev.sinceKill = 2600
    /\ refs.levelTime >= LEVEL_DURATION * 1000
    /\ raf = "none"

\* C37: whenever the session is in LEVEL_COMPLETE or GAME_OVER, the App's
\* buildingsRemaining equals the number of undestroyed buildings of the
\* simulation; while a level is played or paused it exceeds that number by
\* exactly the losses of the level so far, which is what carries the equality
\* from one level to the next.
C37_RemainingMatchesBuildings ==
    /\ gameState \in {"LEVEL_COMPLETE", "GAME_OVER"} =>
          buildingsRemaining = Len(refs.buildings) - NumDestroyed(refs.buildings)
    /\ gameState \in {"PLAYING", "PAUSED"} =>
          buildingsRemaining - refs.buildingsLostInLevel
              = Len(refs.buildings) - NumDestroyed(refs.buildings)

\* level 3 is complete with one building standing: four were lost in earlier
\* levels and one in this level
C37_Witness ==
    /\ gameState = "LEVEL_COMPLETE"
    /\ level = 3
    /\ hist.destroyedAtInit = 4
    /\ refs.buildingsLostInLevel = 1
    /\ NumDestroyed(refs.buildings) = 5
    /\ buildingsRemaining = 1

\* C38: credits are never negative.  A call of buyUpgrade(type) costs
\* 500 x (current level of the upgrade + 1); with at least that many credits
\* it deducts exactly the cost and raises exactly that upgrade by 1, and
\* otherwise it changes neither credits nor upgrades.  A level completion
\* never lowers the credits and leaves the upgrades alone, and nothing but a
\* purchase or the start of a new game lowers credits or changes upgrades.
C38_PurchaseOnlyWhenAffordable ==
    /\ [](credits >= 0)
    /\ [][/\ ev'.kind = "buyUpgrade" =>
               LET type == ev'.bought[1]
                   cost == 500 * (upgrades[type] + 1)
               IN /\ ev'.bought[2] = cost
                  /\ IF credits >= cost
                     THEN /\ credits' = credits - cost
                          /\ upgrades' = [upgrades EXCEPT ![type] = @ + 1]
                     ELSE /\ credits' = credits
                          /\ upgrades' = upgrades
          /\ ev'.kind = "levelComplete" =>
               /\ credits' >= credits
               /\ upgrades' = upgrades
          /\ (credits' < credits \/ upgrades' # upgrades) =>
               ev'.kind \in {"buyUpgrade", "startGame"}]_vars

\* after the third level the speed upgrade has been bought a second time for
\* 1000 credits, and what is left does not pay for any further upgrade
C38_Witness ==
    /\ gameState = "LEVEL_COMPLETE"
    /\ level = 3
    /\ ev.kind = "buyUpgrade"
    /\ ev.bought = <<"speedLevel", 1000>>
    /\ upgrades.speedLevel = 2
    /\ credits >= 0
    /\ \A k \in UpgradeKeys : credits < getUpgradeCost(upgrades[k])

====
